---------------------------- MODULE Spec2Model ----------------------------
(***************************************************************************)
(* A model of the IPP message codec of cups/ipp.c: the message data model, *)
(* the scratch-buffer pool, the resumable decoder ippReadIO, the resumable *)
(* encoder ippWriteIO and the size calculator ipp_length.                  *)
(*                                                                         *)
(* A message is a record; its attribute list is a sequence in list order   *)
(* and the pointers ipp->last, ipp->current and ipp->prev are indices into *)
(* that sequence (0 is NULL).  Strings are sequences of bytes, a NULL      *)
(* string pointer is NULLSTR.                                              *)
(***************************************************************************)
EXTENDS Integers, Sequences, FiniteSets, TLC

(***************************************************************************)
(* Limits and tags (cups/ipp.h), with the values they have on the wire.    *)
(***************************************************************************)
IPP_BUF_SIZE == 32767
IPP_MAX_LENGTH == 32767
IPP_MAX_NAME == 256
IPP_MAX_VALUES == 8

IPP_TAG_ZERO == 0
IPP_TAG_OPERATION == 1
IPP_TAG_JOB == 2
IPP_TAG_END == 3
IPP_TAG_PRINTER == 4
IPP_TAG_UNSUPPORTED_VALUE == 16
IPP_TAG_NOVALUE == 19
IPP_TAG_NOTSETTABLE == 21
IPP_TAG_DELETEATTR == 22
IPP_TAG_ADMINDEFINE == 23
IPP_TAG_INTEGER == 33
IPP_TAG_BOOLEAN == 34
IPP_TAG_ENUM == 35
IPP_TAG_STRING == 48
IPP_TAG_DATE == 49
IPP_TAG_RESOLUTION == 50
IPP_TAG_RANGE == 51
IPP_TAG_BEGIN_COLLECTION == 52
IPP_TAG_TEXTLANG == 53
IPP_TAG_NAMELANG == 54
IPP_TAG_END_COLLECTION == 55
IPP_TAG_TEXT == 65
IPP_TAG_NAME == 66
IPP_TAG_KEYWORD == 68
IPP_TAG_URI == 69
IPP_TAG_URISCHEME == 70
IPP_TAG_CHARSET == 71
IPP_TAG_LANGUAGE == 72
IPP_TAG_MIMETYPE == 73
IPP_TAG_MEMBERNAME == 74

\* ipp_state_t
IPP_ERROR == -1
IPP_IDLE == 0
IPP_HEADER == 1
IPP_ATTRIBUTE == 2
IPP_DATA == 3

IPP_PRINT_JOB == 2

\* a NULL char pointer, and a NULL attribute pointer
NULLSTR == <<-1>>
NULL == 0

(***************************************************************************)
(* Bytes and integers.                                                     *)
(***************************************************************************)
Min(a, b) == IF a < b THEN a ELSE b

\* (unsigned char)x
Byte(x) == x % 256

\* *bufptr++ = n >> 8; *bufptr++ = n;
Put16(n) == << Byte(n \div 256), Byte(n) >>

\* the four bytes of v with the least significant byte first
Put32LittleEndian(v) ==
  << Byte(v), Byte(v \div 256), Byte(v \div 65536), Byte(v \div 16777216) >>

\* *bufptr++ = v >> 24; ... ; *bufptr++ = v;
Put32(v) == << Byte(v \div 16777216), Byte(v \div 65536), Byte(v \div 256), Byte(v) >>

\* (buffer[0] << 8) | buffer[1]
Get16(b, i) == b[i] * 256 + b[i + 1]

\* a conversion that keeps the low 16 bits only
Get32LowHalf(b, i) == b[i + 2] * 256 + b[i + 3]

\* (((((b[0] << 8) | b[1]) << 8) | b[2]) << 8) | b[3], stored in a 32-bit
\* int: a first byte of 128 or more sets the sign bit
Get32(b, i) ==
  (((IF b[i] >= 128 THEN b[i] - 256 ELSE b[i]) * 256 + b[i + 1]) * 256 +
   b[i + 2]) * 256 + b[i + 3]

\* the C string that starts at bytes[1]: the bytes before the first nul
CStrLen(bytes, k) ==
  LET zeros == {i \in k..(Len(bytes) - 1) : bytes[i + 1] = 0}
  IN  IF zeros = {} THEN Len(bytes)
      ELSE CHOOSE i \in zeros : \A j \in zeros : i <= j

\* buffer[n] = '\0'; _cupsStrAlloc((char *)buffer)
CStr(bytes) == SubSeq(bytes, 1, CStrLen(bytes, 0))

\* strlen() of a string pointer the code has tested against NULL
StrLen(s) == IF s = NULLSTR THEN 0 ELSE Len(s)
StrBytes(s) == IF s = NULLSTR THEN <<>> ELSE s

RECURSIVE Concat(_)
Concat(chunks) ==
  IF chunks = <<>> THEN <<>> ELSE Head(chunks) \o Concat(Tail(chunks))

(***************************************************************************)
(* The scratch-buffer pool, cg->ipp_buffers: the list of buffers in list   *)
(* order, each with its identity and its used flag.  For the record, a     *)
(* buffer also carries the number of calls that hold it (holders) and the  *)
(* most calls that ever held it at once (most); the code keeps neither.    *)
(***************************************************************************)
RECURSIVE FirstFree(_, _)
FirstFree(pool, k) ==
  IF k > Len(pool) THEN 0
  ELSE IF ~pool[k].used THEN k
  ELSE FirstFree(pool, k + 1)

\* buffer k of the pool is handed to a caller
Taken(pool, k) ==
  [pool |-> [pool EXCEPT ![k].used = TRUE,
                         ![k].holders = @ + 1,
                         ![k].most = IF pool[k].holders + 1 > @
                                     THEN pool[k].holders + 1 ELSE @],
   buffer |-> pool[k].id]

\* malloc(sizeof(_ipp_buffer_t)); the new buffer becomes the head of the list
Allocated(pool) ==
  [pool |-> <<[id |-> Len(pool) + 1, used |-> TRUE, holders |-> 1,
               most |-> 1]>> \o pool,
   buffer |-> Len(pool) + 1]

\* the head of the list is handed out whether it is in use or not
ipp_buffer_get_head(pool) ==
  IF pool # <<>> THEN Taken(pool, 1) ELSE Allocated(pool)

ipp_buffer_get(pool) ==
  IF FirstFree(pool, 1) # 0 THEN Taken(pool, FirstFree(pool, 1))
  ELSE Allocated(pool)

ipp_buffer_release(pool, b) ==
  [k \in 1..Len(pool) |->
     IF pool[k].id = b
     THEN [pool[k] EXCEPT !.used = FALSE, !.holders = @ - 1]
     ELSE pool[k]]

(***************************************************************************)
(* The byte source and the byte sink behind the ipp_iocb_t callbacks.      *)
(* A source holds the stream, the number of bytes consumed and the most    *)
(* bytes one read() delivers; a sink holds the buffers it was handed, one  *)
(* per call (chunks), the bytes it took of them (taken), the call that     *)
(* fails and the call that takes all bytes but the last (0: none).  The    *)
(* source remembers in short whether a read() ever returned fewer bytes    *)
(* than it was asked for, the sink whether a write() did.                  *)
(***************************************************************************)
ipp_read_file(src, length) ==
  LET k == Min(Min(length, Len(src.data) - src.pos), src.chunk)
  IN  [bytes |-> SubSeq(src.data, src.pos + 1, src.pos + k),
       src   |-> [src EXCEPT !.pos = @ + k, !.short = @ \/ k < length]]

\* write() took the first n bytes of the buffer
Written(dst, bytes, n) ==
  [n |-> n,
   dst |-> [dst EXCEPT !.chunks = Append(@, bytes),
                       !.taken = @ \o SubSeq(bytes, 1, n),
                       !.short = @ \/ n < Len(bytes)]]

\* return (write(*fd, buffer, length));
ipp_write_file(dst, bytes) ==
  IF dst.failAt = Len(dst.chunks) + 1
  THEN [n |-> -1, dst |-> [dst EXCEPT !.chunks = Append(@, bytes),
                                      !.failed = TRUE]]
  ELSE IF dst.shortAt = Len(dst.chunks) + 1 /\ bytes # <<>>
  THEN Written(dst, bytes, Len(bytes) - 1)
  ELSE Written(dst, bytes, Len(bytes))

(***************************************************************************)
(* The message data model.                                                 *)
(***************************************************************************)
\* calloc(1, sizeof(ipp_t)) with version 1.1 and use 1
ippNew ==
  [version |-> <<1, 1>>, op_status |-> 0, request_id |-> 0,
   attrs |-> <<>>, last |-> NULL, current |-> NULL, prev |-> NULL,
   curtag |-> IPP_TAG_ZERO, state |-> IPP_IDLE, use |-> 1]

\* a value slot as calloc() leaves it
ZeroValue == [length |-> 0, data |-> <<>>]

\* the attribute _ippAddAttr callocs: cap counts the value slots it has
NewAttr(num_values) ==
  [name |-> NULLSTR, group_tag |-> IPP_TAG_ZERO, value_tag |-> IPP_TAG_ZERO,
   num_values |-> num_values, values |-> <<>>,
   cap |-> IF num_values > 1 THEN num_values ELSE 1]

\* if (ipp->last == NULL) ipp->attrs = attr; else ipp->last->next = attr;
\* ipp->last = attr;   (the new attribute is ipp.attrs[ipp.last])
_ippAddAttr(ipp, num_values) ==
  LET kept == IF ipp.last = NULL THEN <<>> ELSE SubSeq(ipp.attrs, 1, ipp.last)
  IN  [ipp EXCEPT !.attrs = Append(kept, NewAttr(num_values)),
                  !.last = Len(kept) + 1]

\* a separator that adds no attribute
ippAddSeparatorNone(ipp) == ipp

ippAddSeparator(ipp) ==
  LET i1 == _ippAddAttr(ipp, 0)
  IN  [i1 EXCEPT !.attrs[i1.last].group_tag = IPP_TAG_ZERO,
                 !.attrs[i1.last].value_tag = IPP_TAG_ZERO]

\* the ippAdd<Type>s functions: a named attribute with its values
ippAddValues(ipp, group, type, name, values) ==
  LET i1 == _ippAddAttr(ipp, Len(values))
  IN  [i1 EXCEPT !.attrs[i1.last].name = name,
                 !.attrs[i1.last].group_tag = group,
                 !.attrs[i1.last].value_tag = type,
                 !.attrs[i1.last].values = values]

\* tolower() and '_' to '-' over a language or charset value
LowerDash(c) == IF c = 95 THEN 45 ELSE IF c >= 65 /\ c <= 90 THEN c + 32 ELSE c

ippAddString(ipp, group, type, name, charset, value) ==
  LET v1 == IF type = IPP_TAG_LANGUAGE /\ value \in {<<67>>, <<99>>}
            THEN <<101, 110>> ELSE value
      v2 == IF type \in {IPP_TAG_LANGUAGE, IPP_TAG_CHARSET} /\ v1 # NULLSTR
            THEN [k \in 1..Len(v1) |-> LowerDash(v1[k])] ELSE v1
  IN  ippAddValues(ipp, group, type, name, <<[text |-> v2, charset |-> charset]>>)

\* value->use ++ is the caller's reference; the value holds the message
ippAddCollection(ipp, group, name, value) ==
  ippAddValues(ipp, group, IPP_TAG_BEGIN_COLLECTION, name,
               <<[collection |-> [value EXCEPT !.use = @ + 1]]>>)


(***************************************************************************)
(* ippReadIO.  Its result is a record: the message, the source, the pool,  *)
(* the value returned and, for IPP_ERROR, the message of the DEBUG_puts    *)
(* that precedes the return.  env holds what the build leaves open: junk,  *)
(* the byte found in memory the call did not write, and moves, whether     *)
(* realloc() returns new storage.                                          *)
(***************************************************************************)
\* every tag taken for a string tag
AnyTag(t) == t = t

StringTag(t) ==
  \/ t = IPP_TAG_TEXTLANG
  \/ t = IPP_TAG_NAMELANG
  \/ (t >= IPP_TAG_TEXT /\ t <= IPP_TAG_MIMETYPE)

\* the case labels IPP_TAG_TEXT ... IPP_TAG_MIMETYPE
PlainStringTag(t) ==
  t \in {IPP_TAG_TEXT, IPP_TAG_NAME, IPP_TAG_KEYWORD, IPP_TAG_URI,
         IPP_TAG_URISCHEME, IPP_TAG_CHARSET, IPP_TAG_LANGUAGE, IPP_TAG_MIMETYPE}

\* a reader that knows no tag of values without a payload
NoEmptyValueTag(t) == FALSE

\* the case labels IPP_TAG_NOVALUE ... IPP_TAG_ADMINDEFINE
EmptyValueTag(t) ==
  t \in {IPP_TAG_NOVALUE, IPP_TAG_NOTSETTABLE, IPP_TAG_DELETEATTR,
         IPP_TAG_ADMINDEFINE}

\* value = attr->values + attr->num_values, written
SetSlot(values, slot, v) ==
  IF slot <= Len(values) THEN [values EXCEPT ![slot] = v] ELSE Append(values, v)

\* a value slot nothing was stored in: zeroed by calloc() when it is the
\* attribute's first slot, left as it was by realloc() otherwise
UnwrittenSlot(slot, env) ==
  IF slot = 1 THEN ZeroValue
  ELSE [length |-> env.junk, data |-> [k \in 1..env.junk |-> env.junk]]

\* buffer[i - 1] after a read of bytes into the scratch buffer
BufAt(bytes, i, env) == IF i <= Len(bytes) THEN bytes[i] ELSE env.junk

ReadErr(ipp, src, pool, msg) ==
  [k |-> "error", ipp |-> ipp, src |-> src, pool |-> pool, err |-> msg]

\* the reallocation of the current attribute before a further value
ReallocAttr(ipp, env) ==
  LET c    == ipp.current
      attr == ipp.attrs[c]
  IN  IF attr.num_values = 1 \/
         (attr.num_values > 0 /\ attr.num_values % IPP_MAX_VALUES = 0)
      THEN LET temp == [attr EXCEPT !.cap = attr.num_values + IPP_MAX_VALUES]
           IN  IF env.moves
               THEN \* prev->next = temp (or attrs = temp); temp->next is
                    \* attr->next; current = last = temp
                    [ipp EXCEPT
                       !.attrs = SubSeq(ipp.attrs, 1, ipp.prev) \o <<temp>> \o
                                 SubSeq(ipp.attrs, c + 1, Len(ipp.attrs)),
                       !.current = ipp.prev + 1,
                       !.last = ipp.prev + 1]
               ELSE [ipp EXCEPT !.attrs[c] = temp]
      ELSE ipp

RECURSIVE ippReadIO(_, _, _, _, _, _)

\* text-with-language and name-with-language: the n bytes read are in the
\* scratch buffer, charset-length charset text-length text
ReadLangValue(bytes, env) ==
  LET n1 == BufAt(bytes, 1, env) * 256 + BufAt(bytes, 2, env)
  IN  IF 2 + n1 >= IPP_BUF_SIZE \/ n1 >= IPP_MAX_NAME
      THEN [ok |-> FALSE, value |-> [text |-> NULLSTR, charset |-> NULLSTR]]
      ELSE LET cs == CStr([k \in 1..n1 |-> BufAt(bytes, 2 + k, env)])
               o  == 2 + n1
               n2 == BufAt(bytes, o + 1, env) * 256 + BufAt(bytes, o + 2, env)
           IN  IF o + 2 + n2 >= IPP_BUF_SIZE
               THEN [ok |-> FALSE, value |-> [text |-> NULLSTR, charset |-> cs]]
               ELSE [ok |-> TRUE,
                     value |-> [text |-> CStr([k \in 1..n2 |->
                                                BufAt(bytes, o + 2 + k, env)]),
                                charset |-> cs]]

\* the string value stored in a slot: buffer[n] = '\0' and the text up to
\* the first nul; the charset of a slot that realloc() added is not set
StringValue(ipp, a, slot, bytes, env) ==
  [text |-> CStr(bytes),
   charset |-> IF slot > 1 /\ ipp.attrs[a].value_tag \in
                                {IPP_TAG_TEXTLANG, IPP_TAG_NAMELANG}
               THEN <<env.junk>> ELSE NULLSTR]

\* a read that takes the bytes it got for the string
StringReadShort(ipp, a, slot, n, r, pool, env) ==
  [k |-> "value",
   ipp |-> [ipp EXCEPT !.attrs[a].values =
                         SetSlot(@, slot, StringValue(ipp, a, slot, r.bytes, env)),
                       !.attrs[a].num_values = @ + 1],
   src |-> r.src, pool |-> pool, err |-> ""]

\* the n bytes of a string value were asked for with result r (the message
\* the source prints here is that of the name, "unable to read name!")
StringRead(ipp, a, slot, n, r, pool, env) ==
  IF Len(r.bytes) < n
  THEN ReadErr(ipp, r.src, pool, "unable to read string value")
  ELSE [k |-> "value",
        ipp |-> [ipp EXCEPT !.attrs[a].values =
                              SetSlot(@, slot,
                                      StringValue(ipp, a, slot, r.bytes, env)),
                            !.attrs[a].num_values = @ + 1],
        src |-> r.src, pool |-> pool, err |-> ""]

\* value->collection = ippNew() was read by a nested call with result r
CollectionRead(ipp, a, slot, r) ==
  IF r.ret = IPP_ERROR
  THEN ReadErr([ipp EXCEPT !.attrs[a].values =
                             SetSlot(@, slot, [collection |-> r.ipp])],
               r.src, r.pool, "Unable to read collection value")
  ELSE [k |-> "value",
        ipp |-> [ipp EXCEPT !.attrs[a].values =
                              SetSlot(@, slot, [collection |-> r.ipp]),
                            !.attrs[a].num_values = @ + 1],
        src |-> r.src, pool |-> r.pool, err |-> ""]

\* a reader that takes every declared value length
AnyLength(tag, n) == FALSE

\* the test of the declared value length n of a value with this tag: the
\* sizes of the fixed kinds, and the scratch buffer a string must fit in
\* with its terminating zero
BadLength(tag, n) ==
  CASE tag \in {IPP_TAG_INTEGER, IPP_TAG_ENUM} -> n # 4
    [] tag = IPP_TAG_BOOLEAN -> n # 1
    [] tag = IPP_TAG_DATE -> n # 11
    [] tag = IPP_TAG_RESOLUTION -> n # 9
    [] tag = IPP_TAG_RANGE -> n # 8
    [] EmptyValueTag(tag) \/ PlainStringTag(tag) -> n >= IPP_BUF_SIZE
    [] OTHER -> FALSE

\* from the read of the value length to attr->num_values ++
ReadValue(src, pool, ipp, tag, env) ==
  LET vl == ipp_read_file(src, 2)
  IN
  IF Len(vl.bytes) < 2
  THEN ReadErr(ipp, vl.src, pool, "unable to read value length")
  ELSE
  LET n    == Get16(vl.bytes, 1)
      a    == ipp.current
      slot == ipp.attrs[a].num_values + 1
      Store(i, v) == [i EXCEPT !.attrs[a].values = SetSlot(@, slot, v)]
      Ok(i, s, p) ==
        [k |-> "value", ipp |-> [i EXCEPT !.attrs[a].num_values = @ + 1],
         src |-> s, pool |-> p, err |-> ""]
      BadLen(i) == ReadErr(i, vl.src, pool, "bad value length")
      StringCase(i) ==
        IF BadLength(tag, n) THEN BadLen(i)
        ELSE StringRead(i, a, slot, n, ipp_read_file(vl.src, n), pool, env)
  IN
  CASE tag \in {IPP_TAG_INTEGER, IPP_TAG_ENUM} ->
         IF BadLength(tag, n) THEN BadLen(ipp)
         ELSE LET r == ipp_read_file(vl.src, 4)
              IN  IF Len(r.bytes) < 4
                  THEN ReadErr(ipp, r.src, pool, "Unable to read integer value")
                  ELSE Ok(Store(ipp, [integer |-> Get32(r.bytes, 1)]), r.src, pool)
    [] tag = IPP_TAG_BOOLEAN ->
         IF BadLength(tag, n) THEN BadLen(ipp)
         ELSE LET r == ipp_read_file(vl.src, 1)
              IN  IF Len(r.bytes) < 1
                  THEN ReadErr(ipp, r.src, pool, "Unable to read boolean value")
                  ELSE Ok(Store(ipp, [boolean |-> r.bytes[1]]), r.src, pool)
    [] EmptyValueTag(tag) ->
         IF ipp.attrs[a].value_tag = tag
         THEN IF n = 0
              THEN Ok(IF slot <= Len(ipp.attrs[a].values) THEN ipp
                      ELSE Store(ipp, UnwrittenSlot(slot, env)), vl.src, pool)
              ELSE StringCase([ipp EXCEPT !.attrs[a].value_tag = IPP_TAG_TEXT])
         ELSE StringCase(ipp)
    [] PlainStringTag(tag) ->
         StringCase(ipp)
    [] tag = IPP_TAG_DATE ->
         IF BadLength(tag, n) THEN BadLen(ipp)
         ELSE LET r == ipp_read_file(vl.src, 11)
              IN  IF Len(r.bytes) < 11
                  THEN ReadErr(Store(ipp, [date |-> r.bytes]), r.src, pool,
                               "Unable to read date value")
                  ELSE Ok(Store(ipp, [date |-> r.bytes]), r.src, pool)
    [] tag = IPP_TAG_RESOLUTION ->
         IF BadLength(tag, n) THEN BadLen(ipp)
         ELSE LET r == ipp_read_file(vl.src, 9)
              IN  IF Len(r.bytes) < 9
                  THEN ReadErr(ipp, r.src, pool, "Unable to read resolution value")
                  ELSE Ok(Store(ipp, [xres  |-> Get32(r.bytes, 1),
                                      yres  |-> Get32(r.bytes, 5),
                                      units |-> r.bytes[9]]), r.src, pool)
    [] tag = IPP_TAG_RANGE ->
         IF BadLength(tag, n) THEN BadLen(ipp)
         ELSE LET r == ipp_read_file(vl.src, 8)
              IN  IF Len(r.bytes) < 8
                  THEN ReadErr(ipp, r.src, pool, "Unable to read range value")
                  ELSE Ok(Store(ipp, [lower |-> Get32(r.bytes, 1),
                                      upper |-> Get32(r.bytes, 5)]), r.src, pool)
    [] tag \in {IPP_TAG_TEXTLANG, IPP_TAG_NAMELANG} ->
         IF n >= IPP_BUF_SIZE \/ n < 4 THEN BadLen(ipp)
         ELSE LET r == ipp_read_file(vl.src, n)
              IN  IF Len(r.bytes) < n
                  THEN ReadErr(ipp, r.src, pool,
                               "Unable to read string w/language value")
                  ELSE LET lv == ReadLangValue(r.bytes, env)
                       IN  IF lv.ok THEN Ok(Store(ipp, lv.value), r.src, pool)
                           ELSE ReadErr(Store(ipp, lv.value), r.src, pool,
                                        "bad value length")
    [] tag = IPP_TAG_BEGIN_COLLECTION ->
         \* value->collection = ippNew() comes before the length check
         IF n > 0
         THEN ReadErr(Store(ipp, [collection |-> ippNew]), vl.src, pool,
                      "begCollection tag with value length > 0")
         ELSE CollectionRead(ipp, a, slot,
                             ippReadIO(vl.src, pool, TRUE, TRUE, ippNew, env))
    [] tag = IPP_TAG_END_COLLECTION ->
         IF n > 0
         THEN ReadErr(ipp, vl.src, pool, "endCollection tag with value length > 0")
         ELSE [k |-> "endcol", ipp |-> [ipp EXCEPT !.state = IPP_DATA],
               src |-> vl.src, pool |-> pool, err |-> ""]
    [] tag = IPP_TAG_MEMBERNAME ->
         IF n >= IPP_BUF_SIZE THEN BadLen(ipp)
         ELSE LET r == ipp_read_file(vl.src, n)
              IN  IF Len(r.bytes) < n
                  THEN ReadErr(ipp, r.src, pool, "Unable to read member name value")
                  ELSE \* attr->num_values --, undone by the ++ below
                       Ok([ipp EXCEPT !.attrs[a].name = CStr(r.bytes),
                                      !.attrs[a].num_values = @ - 1],
                          r.src, pool)
    [] OTHER ->
         IF n > IPP_MAX_LENGTH THEN BadLen(ipp)
         ELSE IF n > 0
         THEN LET r == ipp_read_file(vl.src, n)
              IN  IF Len(r.bytes) < n
                  THEN ReadErr(Store(ipp, [length |-> n, data |-> r.bytes]),
                               r.src, pool, "Unable to read unsupported value")
                  ELSE Ok(Store(ipp, [length |-> n, data |-> r.bytes]), r.src, pool)
         ELSE Ok(Store(ipp, [length |-> 0, data |-> <<>>]), vl.src, pool)

\* what an entry's tag and name decide: k = "read" when a value follows,
\* to be stored in the current attribute of ipp
ReadNext(ipp, src, pool, tag) ==
  [k |-> "read", ipp |-> ipp, src |-> src, pool |-> pool, tag |-> tag]

\* a further value of the current attribute taken whatever its tag
MoreValuesAny(src, pool, ipp, tag, env) ==
  IF ipp.current = NULL
  THEN ReadErr(ipp, src, pool, "Attribute without name and no current")
  ELSE ReadNext(ReallocAttr(ipp, env), src, pool, tag)

\* a further value of the current attribute: the tag check
MoreValues(src, pool, ipp, tag, env) ==
  IF ipp.current = NULL
  THEN ReadErr(ipp, src, pool, "Attribute without name and no current")
  ELSE
  LET c         == ipp.current
      value_tag == ipp.attrs[c].value_tag
  IN  IF value_tag = IPP_TAG_ZERO
      THEN ReadNext(ReallocAttr([ipp EXCEPT !.attrs[c].value_tag = tag], env),
                    src, pool, tag)
      ELSE IF StringTag(value_tag)
      THEN IF ~StringTag(tag) /\ tag # IPP_TAG_NOVALUE
           THEN ReadErr(ipp, src, pool, "1setOf value tag mismatch")
           ELSE ReadNext(ReallocAttr(ipp, env), src, pool, tag)
      ELSE IF value_tag # tag
      THEN ReadErr(ipp, src, pool, "value tag mismatch")
      ELSE ReadNext(ReallocAttr(ipp, env), src, pool, tag)

\* attr = ipp->current = _ippAddAttr(ipp, 1) with its first fields
NewCurrent(ipp, value_tag, name) ==
  LET i1 == IF ipp.current # NULL THEN [ipp EXCEPT !.prev = ipp.current] ELSE ipp
      i2 == _ippAddAttr(i1, 1)
  IN  [i2 EXCEPT !.current = i2.last,
                 !.attrs[i2.last].group_tag = ipp.curtag,
                 !.attrs[i2.last].value_tag = value_tag,
                 !.attrs[i2.last].name = name,
                 !.attrs[i2.last].num_values = 0]

\* a reader that lets the entry of a member name have a name
NamelessOrNot(tag, n) == FALSE

\* the entry of a member name has a name of its own: "Name must be length 0!"
NamedMember(tag, n) == tag = IPP_TAG_MEMBERNAME /\ n # 0

\* the name that follows the name length nl of an entry with this tag
ReadName(ipp, pool, tag, nl, env) ==
  IF Len(nl.bytes) < 2
  THEN ReadErr(ipp, nl.src, pool, "unable to read name length")
  ELSE
  LET n == Get16(nl.bytes, 1)
  IN
  IF n >= IPP_BUF_SIZE
  THEN ReadErr(ipp, nl.src, pool, "bad name length")
  ELSE IF n = 0 /\ tag # IPP_TAG_MEMBERNAME /\ tag # IPP_TAG_END_COLLECTION
  THEN MoreValues(nl.src, pool, ipp, tag, env)
  ELSE IF tag = IPP_TAG_MEMBERNAME
  THEN IF NamedMember(tag, n)
       THEN ReadErr(ipp, nl.src, pool, "member name not empty")
       ELSE ReadNext(NewCurrent(ipp, IPP_TAG_ZERO, NULLSTR), nl.src, pool, tag)
  ELSE IF tag # IPP_TAG_END_COLLECTION
  THEN LET r == ipp_read_file(nl.src, n)
       IN  IF Len(r.bytes) < n
           THEN ReadErr(ipp, r.src, pool, "unable to read name")
           ELSE ReadNext(NewCurrent(ipp, tag, CStr(r.bytes)), r.src, pool, tag)
  ELSE ReadNext(ipp, nl.src, pool, tag)

\* ipp->prev = ippAddSeparator(ipp)
SeparatorRead(ipp) == [ipp EXCEPT !.prev = ipp.last]

\* a group tag that leaves the current attribute as it is
GroupSetKeeping(ipp, tag) == [ipp EXCEPT !.curtag = tag]

\* ipp->curtag = tag; ipp->current = NULL;
GroupSet(ipp, tag) == [ipp EXCEPT !.curtag = tag, !.current = NULL]

\* the tag byte t of an entry: the end tag, a group tag or a value tag
ReadTag(ipp, pool, t, env) ==
  IF Len(t.bytes) < 1
  THEN ReadErr(ipp, t.src, pool, "Callback returned EOF/error")
  ELSE
  LET tag == t.bytes[1]
  IN
  IF tag = IPP_TAG_END
  THEN [k |-> "end", ipp |-> [ipp EXCEPT !.state = IPP_DATA],
        src |-> t.src, pool |-> pool, err |-> ""]
  ELSE IF tag < IPP_TAG_UNSUPPORTED_VALUE
  THEN LET i1 == IF ipp.curtag = tag
                 THEN SeparatorRead(ippAddSeparator(ipp))
                 ELSE IF ipp.current # NULL
                 THEN [ipp EXCEPT !.prev = ipp.current]
                 ELSE ipp
       IN  [k |-> "group", ipp |-> GroupSet(i1, tag),
            src |-> t.src, pool |-> pool, err |-> ""]
  ELSE ReadName(ipp, pool, tag, ipp_read_file(t.src, 2), env)

\* the value of an entry whose tag and name were read
ReadEntryValue(h, env) ==
  IF h.k = "read" THEN ReadValue(h.src, h.pool, h.ipp, h.tag, env) ELSE h

\* one pass of the for (;;) loop of the IPP_ATTRIBUTE state
ReadEntry(src, pool, ipp, env) ==
  ReadEntryValue(ReadTag(ipp, pool, ipp_read_file(src, 1), env), env)

RECURSIVE ReadAttributes(_, _, _, _, _)

\* a loop that goes on after a value whether or not the call blocks
EntryReadThrough(blocking, env, e) ==
  CASE e.k = "error" ->
         [ipp |-> e.ipp, src |-> e.src, pool |-> e.pool,
          ret |-> IPP_ERROR, err |-> e.err]
    [] e.k \in {"end", "endcol"} ->
         [ipp |-> e.ipp, src |-> e.src, pool |-> e.pool,
          ret |-> e.ipp.state, err |-> ""]
    [] OTHER ->
         ReadAttributes(e.src, e.pool, blocking, e.ipp, env)

\* after one pass e of the loop: it ends with the end tag, the end of a
\* collection, an error or, when not blocking, a value
EntryRead(blocking, env, e) ==
  CASE e.k = "error" ->
         [ipp |-> e.ipp, src |-> e.src, pool |-> e.pool,
          ret |-> IPP_ERROR, err |-> e.err]
    [] e.k \in {"end", "endcol"} ->
         [ipp |-> e.ipp, src |-> e.src, pool |-> e.pool,
          ret |-> e.ipp.state, err |-> ""]
    [] e.k = "value" /\ ~blocking ->
         [ipp |-> e.ipp, src |-> e.src, pool |-> e.pool,
          ret |-> e.ipp.state, err |-> ""]
    [] OTHER ->
         ReadAttributes(e.src, e.pool, blocking, e.ipp, env)

\* the for (;;) loop
ReadAttributes(src, pool, blocking, ipp, env) ==
  EntryRead(blocking, env, ReadEntry(src, pool, ipp, env))

\* a header step that takes the bytes it got and leaves the header fields
ReadHeaderLenient(src, parent, ipp) ==
  [ok |-> TRUE,
   src |-> IF parent THEN src ELSE ipp_read_file(src, 8).src,
   ipp |-> [ipp EXCEPT !.state = IPP_ATTRIBUTE, !.current = NULL,
                       !.curtag = IPP_TAG_ZERO, !.prev = ipp.last]]

\* the header of a top-level message and the reset of the cursors
ReadHeader(src, parent, ipp) ==
  LET i1 == [ipp EXCEPT !.state = IPP_HEADER]
      h  == IF parent THEN [bytes |-> <<>>, src |-> src] ELSE ipp_read_file(src, 8)
  IN  IF ~parent /\ Len(h.bytes) < 8
      THEN [ok |-> FALSE, ipp |-> i1, src |-> h.src]
      ELSE LET i2 == IF parent THEN i1
                     ELSE [i1 EXCEPT !.version = <<h.bytes[1], h.bytes[2]>>,
                                     !.op_status = Get16(h.bytes, 3),
                                     !.request_id = Get32(h.bytes, 5)]
           IN  [ok |-> TRUE, src |-> h.src,
                ipp |-> [i2 EXCEPT !.state = IPP_ATTRIBUTE,
                                   !.current = NULL,
                                   !.curtag = IPP_TAG_ZERO,
                                   !.prev = i2.last]]

\* after the header h: a blocking call goes on with the attributes
HeaderRead(pool, blocking, env, h) ==
  IF ~h.ok
  THEN [ipp |-> h.ipp, src |-> h.src, pool |-> pool,
        ret |-> IPP_ERROR, err |-> "Unable to read header"]
  ELSE IF ~blocking
  THEN [ipp |-> h.ipp, src |-> h.src, pool |-> pool,
        ret |-> h.ipp.state, err |-> ""]
  ELSE ReadAttributes(h.src, pool, blocking, h.ipp, env)

\* a switch that reads on after the end tag
ReadStatesRestart(src, blocking, parent, ipp, env, bg) ==
  IF ipp.state \in {IPP_IDLE, IPP_HEADER}
  THEN HeaderRead(bg.pool, blocking, env, ReadHeader(src, parent, ipp))
  ELSE ReadAttributes(src, bg.pool, blocking, ipp, env)

\* switch (ipp->state) with the scratch buffer bg taken from the pool
ReadStates(src, blocking, parent, ipp, env, bg) ==
  IF ipp.state \in {IPP_IDLE, IPP_HEADER}
  THEN HeaderRead(bg.pool, blocking, env, ReadHeader(src, parent, ipp))
  ELSE IF ipp.state = IPP_ATTRIBUTE
  THEN ReadAttributes(src, bg.pool, blocking, ipp, env)
  ELSE [ipp |-> ipp, src |-> src, pool |-> bg.pool,
        ret |-> ipp.state, err |-> ""]

\* a return that detaches the attributes of a message that failed
ReadReturnRolledBack(r, bg) ==
  [r EXCEPT !.pool = ipp_buffer_release(@, bg.buffer),
            !.ipp = IF r.ret = IPP_ERROR
                    THEN [@ EXCEPT !.attrs = <<>>, !.last = NULL,
                                   !.current = NULL, !.prev = NULL]
                    ELSE @]

\* ipp_buffer_release(buffer) on the way out
ReadReturn(r, bg) == [r EXCEPT !.pool = ipp_buffer_release(@, bg.buffer)]

ReadWithBuffer(src, blocking, parent, ipp, env, bg) ==
  ReadReturn(ReadStates(src, blocking, parent, ipp, env, bg), bg)

ippReadIO(src, pool, blocking, parent, ipp, env) ==
  ReadWithBuffer(src, blocking, parent, ipp, env, ipp_buffer_get(pool))

(***************************************************************************)
(* ippWriteIO.  The scratch buffer is the sequence buf of the bytes from   *)
(* buffer to bufptr.  A call that dereferences a NULL attribute name does  *)
(* not return: its result carries IPP_CRASH.                               *)
(***************************************************************************)
IPP_CRASH == -2

\* the bytes that do not fit fill the buffer first, which is then flushed
EmitFilling(st, need, bytes) ==
  IF ~st.ok THEN st
  ELSE IF IPP_BUF_SIZE - Len(st.buf) < need
  THEN LET room == Min(IPP_BUF_SIZE - Len(st.buf), Len(bytes))
           w == ipp_write_file(st.dst, st.buf \o SubSeq(bytes, 1, room))
       IN  IF w.n < 0
           THEN [st EXCEPT !.ok = FALSE, !.dst = w.dst,
                           !.err = "Could not write IPP attribute"]
           ELSE [st EXCEPT !.dst = w.dst,
                           !.buf = SubSeq(bytes, room + 1, Len(bytes))]
  ELSE [st EXCEPT !.buf = @ \o bytes]

\* if (IPP_BUF_SIZE - (bufptr - buffer) < need) flush; then add the bytes
Emit(st, need, bytes) ==
  IF ~st.ok THEN st
  ELSE IF IPP_BUF_SIZE - Len(st.buf) < need
  THEN LET w == ipp_write_file(st.dst, st.buf)
       IN  IF w.n < 0
           THEN [st EXCEPT !.ok = FALSE, !.dst = w.dst,
                           !.err = "Could not write IPP attribute"]
           ELSE [st EXCEPT !.dst = w.dst, !.buf = bytes]
  ELSE [st EXCEPT !.buf = @ \o bytes]

\* a further value announced with the text tag whatever the attribute's
SetEntryText(attr) == <<IPP_TAG_TEXT, 0, 0>>

\* *bufptr++ = attr->value_tag; *bufptr++ = 0; *bufptr++ = 0;
SetEntry(attr) == <<Byte(attr.value_tag), 0, 0>>

WriteFail(st, msg) == [st EXCEPT !.ok = FALSE, !.err = msg]

RECURSIVE ippWriteIO(_, _, _, _, _)

\* the state after value->collection was written with result r
CollectionWritten(s1, i, r) ==
  LET s2 == [s1 EXCEPT !.dst = r.dst, !.pool = r.pool, !.buf = <<>>,
                       !.attr.values[i].collection = r.ipp]
  IN  IF r.ret = IPP_CRASH THEN [s2 EXCEPT !.ok = FALSE, !.err = "crash"]
      ELSE IF r.ret = IPP_ERROR
      THEN WriteFail(s2, "Unable to write collection value")
      ELSE s2

\* the buffer is written out, then value->collection->state = IPP_IDLE and
\* ippWriteIO(dst, cb, 1, ipp, value->collection)
FlushedForCollection(s1, i, w) ==
  IF w.n < 0
  THEN [s1 EXCEPT !.ok = FALSE, !.dst = w.dst,
                  !.err = "Could not write IPP attribute"]
  ELSE CollectionWritten(s1, i,
         ippWriteIO(w.dst, s1.pool, TRUE, TRUE,
                    [s1.attr.values[i].collection EXCEPT !.state = IPP_IDLE]))

WriteCollection(s1, i) ==
  IF ~s1.ok THEN s1
  ELSE FlushedForCollection(s1, i, ipp_write_file(s1.dst, s1.buf))

\* the body of the value loop for value i of attr; st holds the sink, the
\* pool, the buffer and the attribute (a collection value changes state)
WriteValue(st, i) ==
  LET attr  == st.attr
      tag   == attr.value_tag
      value == attr.values[i]
      more  == IF i > 1 THEN SetEntry(attr) ELSE <<>>
  IN
  CASE tag \in {IPP_TAG_INTEGER, IPP_TAG_ENUM} ->
         Emit(st, 9, more \o <<0, 4>> \o Put32(value.integer))
    [] tag = IPP_TAG_BOOLEAN ->
         Emit(st, 6, more \o <<0, 1, Byte(value.boolean)>>)
    [] PlainStringTag(tag) ->
         LET s1 == IF i > 1 THEN Emit(st, 3, more) ELSE st
             n  == StrLen(value.text)
         IN  IF ~s1.ok THEN s1
             ELSE IF n > IPP_BUF_SIZE - 2 THEN WriteFail(s1, "String too long")
             ELSE Emit(s1, n + 2, Put16(n) \o StrBytes(value.text))
    [] tag = IPP_TAG_DATE ->
         Emit(st, 16, more \o <<0, 11>> \o value.date)
    [] tag = IPP_TAG_RESOLUTION ->
         Emit(st, 14, more \o <<0, 9>> \o Put32(value.xres) \o Put32(value.yres)
                           \o <<Byte(value.units)>>)
    [] tag = IPP_TAG_RANGE ->
         Emit(st, 13, more \o <<0, 8>> \o Put32(value.lower) \o Put32(value.upper))
    [] tag \in {IPP_TAG_TEXTLANG, IPP_TAG_NAMELANG} ->
         LET s1 == IF i > 1 THEN Emit(st, 3, more) ELSE st
             n  == 4 + StrLen(value.charset) + StrLen(value.text)
         IN  IF ~s1.ok THEN s1
             ELSE IF n > IPP_BUF_SIZE - 2
             THEN WriteFail(s1, "text/nameWithLanguage value too long")
             ELSE Emit(s1, n + 2,
                       Put16(n) \o Put16(StrLen(value.charset)) \o
                       StrBytes(value.charset) \o Put16(StrLen(value.text)) \o
                       StrBytes(value.text))
    [] tag = IPP_TAG_BEGIN_COLLECTION ->
         WriteCollection(Emit(st, 5, more \o <<0, 0>>), i)
    [] OTHER ->
         LET s1 == IF i > 1 THEN Emit(st, 3, more) ELSE st
             n  == value.length
         IN  IF ~s1.ok THEN s1
             ELSE IF n > IPP_BUF_SIZE - 2 THEN WriteFail(s1, "Data length too long")
             ELSE Emit(s1, n + 2, Put16(n) \o value.data)

\* for (i = 0, value = attr->values; i < attr->num_values; i ++, value ++)
RECURSIVE WriteValues(_, _)
WriteValues(st, i) ==
  IF ~st.ok \/ i > st.attr.num_values THEN st
  ELSE WriteValues(WriteValue(st, i), i + 1)

\* the value tag and the name of an attribute, as a top-level attribute or
\* as a collection member, after the bytes already in the buffer
NameEntry(parent, attr, buf) ==
  LET n == Len(attr.name)
  IN  IF ~parent
      THEN IF n > IPP_BUF_SIZE - 4 THEN [ok |-> FALSE, buf |-> buf]
           ELSE [ok |-> TRUE,
                 buf |-> buf \o <<Byte(attr.value_tag)>> \o Put16(n) \o attr.name]
      ELSE IF n > IPP_BUF_SIZE - 7 THEN [ok |-> FALSE, buf |-> buf]
           ELSE [ok |-> TRUE,
                 buf |-> buf \o <<IPP_TAG_MEMBERNAME, 0, 0>> \o Put16(n) \o
                         attr.name \o <<Byte(attr.value_tag), 0, 0>>]

\* an end tag at every level
EndMarkerTag(parent) == <<IPP_TAG_END>>

\* the end-of-attributes tag or the end-collection attribute
EndMarker(parent) ==
  IF ~parent THEN <<IPP_TAG_END>> ELSE <<IPP_TAG_END_COLLECTION, 0, 0, 0, 0>>

\* what follows the while loop: the end marker once the list is exhausted
WriteEnd(dst, pool, parent, ipp) ==
  IF ipp.current = NULL
  THEN LET w == ipp_write_file(dst, EndMarker(parent))
       IN  IF w.n < 0
           THEN [ipp |-> ipp, dst |-> w.dst, pool |-> pool, ret |-> IPP_ERROR,
                 err |-> "Could not write IPP end-tag"]
           ELSE [ipp |-> [ipp EXCEPT !.state = IPP_DATA], dst |-> w.dst,
                 pool |-> pool, ret |-> IPP_DATA, err |-> ""]
  ELSE [ipp |-> ipp, dst |-> dst, pool |-> pool, ret |-> ipp.state, err |-> ""]

\* ipp->current->next
NextAttr(ipp, c) == IF c < Len(ipp.attrs) THEN c + 1 ELSE NULL

RECURSIVE WriteAttributes(_, _, _, _, _)

\* a failure that puts the cursor back on the attribute before it
WriteFailedRewound(ipp, dst, pool, msg) ==
  [ipp |-> [ipp EXCEPT !.current = IF @ = NULL THEN Len(ipp.attrs) ELSE @ - 1],
   dst |-> dst, pool |-> pool, ret |-> IPP_ERROR, err |-> msg]

\* return (IPP_ERROR) of a top-level step
WriteFailed(ipp, dst, pool, msg) ==
  [ipp |-> ipp, dst |-> dst, pool |-> pool, ret |-> IPP_ERROR, err |-> msg]

\* the attribute's bytes left in the buffer are written out; a blocking call
\* goes on with the next attribute
AttributeFlushed(pool, blocking, parent, ipp, w) ==
  IF w.n < 0 THEN WriteFailed(ipp, w.dst, pool, "Could not write IPP attribute")
  ELSE IF ~blocking THEN WriteEnd(w.dst, pool, parent, ipp)
  ELSE WriteAttributes(w.dst, pool, blocking, parent, ipp)

\* after the value loop of attribute c, which ended in state st
ValuesWritten(blocking, parent, ipp, c, st) ==
  IF ~st.ok
  THEN [ipp |-> [ipp EXCEPT !.attrs[c] = st.attr], dst |-> st.dst,
        pool |-> st.pool,
        ret |-> IF st.err = "crash" THEN IPP_CRASH ELSE IPP_ERROR,
        err |-> st.err]
  ELSE AttributeFlushed(st.pool, blocking, parent,
                        [ipp EXCEPT !.attrs[c] = st.attr],
                        IF st.buf # <<>> THEN ipp_write_file(st.dst, st.buf)
                        ELSE [n |-> 0, dst |-> st.dst])

\* the name of attribute c is in the buffer, or was too long for it
NameWritten(dst, pool, blocking, parent, ipp, c, ne) ==
  IF ~ne.ok THEN WriteFailed(ipp, dst, pool, "Attribute name too long")
  ELSE ValuesWritten(blocking, parent, ipp, c,
                     WriteValues([ok |-> TRUE, err |-> "", dst |-> dst,
                                  pool |-> pool, buf |-> ne.buf,
                                  attr |-> ipp.attrs[c]], 1))

\* a group tag before every top-level attribute
NewGroupAlways(parent, ipp, attr) == ~parent

\* if (!parent) if (ipp->curtag != attr->group_tag): the group tag of a
\* top-level attribute is to be written
NewGroup(parent, ipp, attr) == ~parent /\ ipp.curtag # attr.group_tag

\* while (ipp->current != NULL) { ... } and the end marker
WriteAttributes(dst, pool, blocking, parent, ipp) ==
  IF ipp.current = NULL THEN WriteEnd(dst, pool, parent, ipp)
  ELSE
  LET c    == ipp.current
      attr == ipp.attrs[c]
      newgroup == NewGroup(parent, ipp, attr)
      i2   == [ipp EXCEPT !.current = NextAttr(ipp, c),
                          !.curtag = IF newgroup THEN attr.group_tag ELSE @]
  IN
  IF ~parent /\ attr.group_tag = IPP_TAG_ZERO
  THEN WriteAttributes(dst, pool, blocking, parent, i2)
  ELSE IF attr.name = NULLSTR
  THEN [ipp |-> i2, dst |-> dst, pool |-> pool, ret |-> IPP_CRASH,
        err |-> "strlen(NULL)"]
  ELSE NameWritten(dst, pool, blocking, parent, i2, c,
                   NameEntry(parent, attr,
                             IF newgroup THEN <<Byte(attr.group_tag)>> ELSE <<>>))

\* a header with the request id before the operation code
HeaderBytesIdFirst(ipp) ==
  <<Byte(ipp.version[1]), Byte(ipp.version[2])>> \o Put32(ipp.request_id) \o
  Put16(ipp.op_status)

\* the request header: version, operation or status code, request id
HeaderBytes(ipp) ==
  <<Byte(ipp.version[1]), Byte(ipp.version[2])>> \o Put16(ipp.op_status) \o
  Put32(ipp.request_id)

\* a header step that, when not blocking, leaves the cursor on the second
\* attribute
HeaderWrittenSkipping(pool, blocking, parent, ipp, w) ==
  IF w.n < 0
  THEN WriteFailed(ipp, w.dst, pool, "Could not write IPP header")
  ELSE IF ~blocking
  THEN [ipp |-> [ipp EXCEPT !.state = IPP_ATTRIBUTE,
                            !.current = IF Len(ipp.attrs) > 1 THEN 2 ELSE NULL,
                            !.curtag = IPP_TAG_ZERO],
        dst |-> w.dst, pool |-> pool, ret |-> IPP_ATTRIBUTE, err |-> ""]
  ELSE WriteAttributes(w.dst, pool, blocking, parent,
                       [ipp EXCEPT !.state = IPP_ATTRIBUTE,
                                   !.current = IF Len(ipp.attrs) > 0 THEN 1 ELSE NULL,
                                   !.curtag = IPP_TAG_ZERO])

\* the header was handed to the callback with result w
HeaderWritten(pool, blocking, parent, ipp, w) ==
  IF w.n < 0
  THEN WriteFailed(ipp, w.dst, pool, "Could not write IPP header")
  ELSE IF ~blocking
  THEN [ipp |-> [ipp EXCEPT !.state = IPP_ATTRIBUTE,
                            !.current = IF Len(ipp.attrs) > 0 THEN 1 ELSE NULL,
                            !.curtag = IPP_TAG_ZERO],
        dst |-> w.dst, pool |-> pool, ret |-> IPP_ATTRIBUTE, err |-> ""]
  ELSE WriteAttributes(w.dst, pool, blocking, parent,
                       [ipp EXCEPT !.state = IPP_ATTRIBUTE,
                                   !.current = IF Len(ipp.attrs) > 0 THEN 1 ELSE NULL,
                                   !.curtag = IPP_TAG_ZERO])

\* switch (ipp->state) with the scratch buffer bg taken from the pool
WriteStates(dst, blocking, parent, ipp, bg) ==
  IF ipp.state \in {IPP_IDLE, IPP_HEADER}
  THEN HeaderWritten(bg.pool, blocking, parent,
                     [ipp EXCEPT !.state = IPP_HEADER],
                     IF parent THEN [n |-> 0, dst |-> dst]
                     ELSE ipp_write_file(dst, HeaderBytes(ipp)))
  ELSE IF ipp.state = IPP_ATTRIBUTE
  THEN WriteAttributes(dst, bg.pool, blocking, parent, ipp)
  ELSE [ipp |-> ipp, dst |-> dst, pool |-> bg.pool, ret |-> ipp.state,
        err |-> ""]

\* a return that leaves the buffer marked used
ReturnHolding(r, bg) == r

\* ipp_buffer_release(buffer) on the way out
WriteReturn(r, bg) == [r EXCEPT !.pool = ipp_buffer_release(@, bg.buffer)]

WriteWithBuffer(dst, blocking, parent, ipp, bg) ==
  WriteReturn(WriteStates(dst, blocking, parent, ipp, bg), bg)

ippWriteIO(dst, pool, blocking, parent, ipp) ==
  WriteWithBuffer(dst, blocking, parent, ipp, ipp_buffer_get(pool))

\* a blocking ippWriteIO from the state the message is in
ippWriteFileKeeping(dst, pool, ipp) == ippWriteIO(dst, pool, TRUE, FALSE, ipp)

\* ipp->state = IPP_IDLE; ippWriteIO(&fd, ipp_write_file, 1, NULL, ipp)
ippWriteFile(dst, pool, ipp) ==
  ippWriteIO(dst, pool, TRUE, FALSE, [ipp EXCEPT !.state = IPP_IDLE])

(***************************************************************************)
(* ipp_length and ippLength.                                               *)
(***************************************************************************)
RECURSIVE SumOver(_, _, _)
SumOver(F(_), values, k) ==
  IF k = 0 THEN 0 ELSE F(values[k]) + SumOver(F, values, k - 1)

RECURSIVE ipp_length(_, _)

\* the bytes of the values of one attribute, by value tag
ValueLength(attr) ==
  LET tag == attr.value_tag
      nv  == attr.num_values
      TextLen(v)  == StrLen(v.text)
      LangLen(v)  == StrLen(v.charset) + StrLen(v.text)
      CollLen(v)  == ipp_length(v.collection, TRUE)
      OtherLen(v) == v.length
  IN  CASE tag \in {IPP_TAG_INTEGER, IPP_TAG_ENUM} -> 4 * nv
        [] tag = IPP_TAG_BOOLEAN -> nv
        [] PlainStringTag(tag) -> SumOver(TextLen, attr.values, nv)
        [] tag = IPP_TAG_DATE -> 11 * nv
        [] tag = IPP_TAG_RESOLUTION -> 9 * nv
        [] tag = IPP_TAG_RANGE -> 8 * nv
        [] tag \in {IPP_TAG_TEXTLANG, IPP_TAG_NAMELANG} ->
             4 * nv + SumOver(LangLen, attr.values, nv)
        [] tag = IPP_TAG_BEGIN_COLLECTION -> SumOver(CollLen, attr.values, nv)
        [] OTHER -> SumOver(OtherLen, attr.values, nv)

\* the for loop over the attributes: bytes so far, group so far
RECURSIVE LengthLoop(_, _, _, _, _)
LengthLoop(ipp, collection, k, group, bytes) ==
  IF k > Len(ipp.attrs) THEN bytes
  ELSE
  LET attr     == ipp.attrs[k]
      newgroup == attr.group_tag # group /\ ~collection
      group1   == IF newgroup THEN attr.group_tag ELSE group
  IN  IF newgroup /\ group1 = IPP_TAG_ZERO
      THEN LengthLoop(ipp, collection, k + 1, group1, bytes)
      ELSE LET b1 == IF newgroup THEN bytes + 1 ELSE bytes
           IN  IF attr.name = NULLSTR
               THEN LengthLoop(ipp, collection, k + 1, group1, b1)
               ELSE LengthLoop(ipp, collection, k + 1, group1,
                               b1 + Len(attr.name) + 5 * attr.num_values +
                               (IF collection THEN 5 ELSE 0) + ValueLength(attr))

ipp_length(ipp, collection) ==
  LengthLoop(ipp, collection, 1, IPP_TAG_ZERO, IF collection THEN 0 ELSE 8) +
  (IF collection THEN 5 ELSE 1)

\* ippLength(ipp); NoMessage is the NULL ipp_t pointer
NoMessage == [null |-> TRUE]
ippLength(ipp) == IF ipp = NoMessage THEN 0 ELSE ipp_length(ipp, FALSE)


(***************************************************************************)
(* The other ippAdd functions and ippNewRequest.                           *)
(***************************************************************************)
ippAddIntegers(ipp, group, type, name, values) ==
  ippAddValues(ipp, group, type, name,
               [k \in 1..Len(values) |-> [integer |-> values[k]]])

ippAddBooleans(ipp, group, name, values) ==
  ippAddValues(ipp, group, IPP_TAG_BOOLEAN, name,
               [k \in 1..Len(values) |-> [boolean |-> values[k]]])

\* every value shares the charset of the first one
ippAddStrings(ipp, group, type, name, charset, values) ==
  ippAddValues(ipp, group, type, name,
               [k \in 1..Len(values) |->
                  [text |-> IF type = IPP_TAG_LANGUAGE /\ values[k] \in {<<67>>, <<99>>}
                            THEN <<101, 110>>
                            ELSE IF type \in {IPP_TAG_LANGUAGE, IPP_TAG_CHARSET}
                            THEN [j \in 1..Len(values[k]) |-> LowerDash(values[k][j])]
                            ELSE values[k],
                   charset |-> charset]])

ippAddDate(ipp, group, name, value) ==
  ippAddValues(ipp, group, IPP_TAG_DATE, name, <<[date |-> value]>>)

ippAddRanges(ipp, group, name, lower, upper) ==
  ippAddValues(ipp, group, IPP_TAG_RANGE, name,
               [k \in 1..Len(lower) |-> [lower |-> lower[k], upper |-> upper[k]]])

ippAddResolutions(ipp, group, name, units, xres, yres) ==
  ippAddValues(ipp, group, IPP_TAG_RESOLUTION, name,
               [k \in 1..Len(xres) |->
                  [xres |-> xres[k], yres |-> yres[k], units |-> units]])

ippAddOctetString(ipp, group, name, data) ==
  ippAddValues(ipp, group, IPP_TAG_STRING, name,
               <<[length |-> Len(data), data |-> data]>>)

ippAddCollections(ipp, group, name, values) ==
  ippAddValues(ipp, group, IPP_TAG_BEGIN_COLLECTION, name,
               [k \in 1..Len(values) |->
                  [collection |-> [values[k] EXCEPT !.use = @ + 1]]])

\* "attributes-charset", "attributes-natural-language", "utf-8"
AttributesCharset ==
  <<97, 116, 116, 114, 105, 98, 117, 116, 101, 115, 45,
    99, 104, 97, 114, 115, 101, 116>>
AttributesNaturalLanguage ==
  <<97, 116, 116, 114, 105, 98, 117, 116, 101, 115, 45,
    110, 97, 116, 117, 114, 97, 108, 45,
    108, 97, 110, 103, 117, 97, 103, 101>>
Utf8 == <<117, 116, 102, 45, 56>>

\* language is cupsLangDefault()->language
ippNewRequest(op, language) ==
  LET request == [ippNew EXCEPT !.op_status = op, !.request_id = 1]
      r1 == ippAddString(request, IPP_TAG_OPERATION, IPP_TAG_CHARSET,
                         AttributesCharset, NULLSTR, Utf8)
  IN  ippAddString(r1, IPP_TAG_OPERATION, IPP_TAG_LANGUAGE,
                   AttributesNaturalLanguage, NULLSTR, language)

(***************************************************************************)
(* The state: an application builds the message ipp with the ippAdd        *)
(* functions and writes it to the sink dst; the bytes written become the   *)
(* stream of the source src, from which the message rsp is read.  heap is  *)
(* the memory of an application that shares and deletes messages, cg the   *)
(* globals of the threads that take and release scratch buffers.           *)
(***************************************************************************)
VARIABLES ipp, dst, src, rsp, pool, log, heap, cg

vars == <<ipp, dst, src, rsp, pool, log, heap, cg>>

\* bounds of the model: the calls an application makes to build a message
MaxCalls == 2

\* more bytes than any read asks for: a read() that is never short
WholeField == 65536

Prefix(s, n) == SubSeq(s, 1, n)

\* sample data of the calls
SampleInts == <<2147483647, -2147483647 - 1, 65536>>
SampleStrings == <<<<97, 98>>, <<>>, <<99>>>>
SampleDate == <<7, 218, 9, 24, 18, 21, 54, 0, 43, 0, 0>>
SampleData == <<0, 255, 7>>
LangEn == <<101, 110>>

\* a collection with an array-valued member and a collection member, and
\* the collection inside it
InnerCollection ==
  ippAddIntegers(ippNew, IPP_TAG_ZERO, IPP_TAG_INTEGER, <<120>>, <<21590>>)
SampleCollection ==
  ippAddCollection(
    ippAddStrings(ippNew, IPP_TAG_ZERO, IPP_TAG_KEYWORD, <<109>>, NULLSTR,
                  Prefix(SampleStrings, 2)),
    IPP_TAG_ZERO, <<115>>, InnerCollection)
\* a collection whose member was added with a group
GroupedCollection ==
  ippAddIntegers(ippNew, IPP_TAG_JOB, IPP_TAG_INTEGER, <<121>>, <<3>>)

EmptySink == [chunks |-> <<>>, taken |-> <<>>, failAt |-> 0, shortAt |-> 0,
              failed |-> FALSE, short |-> FALSE]
EmptySource == [data |-> <<>>, pos |-> 0, chunk |-> WholeField, short |-> FALSE]
\* what was done to the stream on its way: nothing, or the stream cut at
\* offset at, or the name length of the entry at offset at made too large,
\* or the value tag was of the entry at offset at replaced by tag
NoFault == [kind |-> "none", at |-> 0, tag |-> 0, was |-> 0]
NoLog == [calls |-> 0, wcalls |-> 0, wnb |-> 0, rcalls |-> 0, rnb |-> 0,
          ret |-> IPP_IDLE, err |-> "", fault |-> NoFault]

\* no message was allocated
NoHeap == [msgs |-> <<>>, attrs |-> <<>>, data |-> <<>>, held |-> <<>>,
           frees |-> <<>>, bad |-> FALSE]

\* no thread runs
NoThreads == [build |-> "", heads |-> <<>>, bufs |-> <<>>, threads |-> <<>>]

Init ==
  /\ ipp = ippNew
  /\ dst = EmptySink
  /\ src = EmptySource
  /\ rsp = ippNew
  /\ pool = <<>>
  /\ log = NoLog
  /\ heap = NoHeap
  /\ cg = NoThreads

Building == log.wcalls = 0 /\ src = EmptySource /\ log.calls < MaxCalls

Built(m) ==
  /\ ipp' = m
  /\ log' = [log EXCEPT !.calls = @ + 1]
  /\ UNCHANGED <<dst, src, rsp, pool, heap, cg>>

NewRequest ==
  /\ Building /\ log.calls = 0
  /\ \E language \in {LangEn, <<67>>, <<100, 101, 95, 68, 69>>} :
       Built(ippNewRequest(IPP_PRINT_JOB, language))

\* the application fills in the header of a response
SetHeader ==
  /\ Building /\ log.calls = 0
  /\ Built([ipp EXCEPT !.version = <<2, 0>>, !.op_status = 1287,
                       !.request_id = -2])

AddInteger ==
  /\ Building
  /\ \E group \in {IPP_TAG_OPERATION, IPP_TAG_ZERO} :
       Built(ippAddIntegers(ipp, group, IPP_TAG_INTEGER, <<105>>, <<-2>>))

AddIntegers ==
  /\ Building
  /\ Built(ippAddIntegers(ipp, IPP_TAG_JOB, IPP_TAG_ENUM, <<101>>, SampleInts))

AddOutOfBand ==
  /\ Building
  /\ Built(ippAddValues(ipp, IPP_TAG_JOB, IPP_TAG_NOVALUE, <<111>>, <<ZeroValue>>))

AddBooleans ==
  /\ Building
  /\ Built(ippAddBooleans(ipp, IPP_TAG_OPERATION, <<98>>, <<1, 0>>))

AddStrings ==
  /\ Building
  /\ Built(ippAddStrings(ipp, IPP_TAG_JOB, IPP_TAG_KEYWORD, <<107>>, NULLSTR,
                         SampleStrings))

AddLangStrings ==
  /\ Building
  /\ Built(ippAddStrings(ipp, IPP_TAG_JOB, IPP_TAG_TEXTLANG, <<116>>, LangEn,
                         Prefix(SampleStrings, 2)))

AddDate ==
  /\ Building
  /\ Built(ippAddDate(ipp, IPP_TAG_PRINTER, <<100>>, SampleDate))

AddRanges ==
  /\ Building
  /\ Built(ippAddRanges(ipp, IPP_TAG_JOB, <<114>>, <<1, -5>>, <<10, 5>>))

AddResolutions ==
  /\ Building
  /\ Built(ippAddResolutions(ipp, IPP_TAG_PRINTER, <<115>>, 3,
                             <<300, 600>>, <<300, 1200>>))

AddOctetString ==
  /\ Building
  /\ Built(ippAddOctetString(ipp, IPP_TAG_OPERATION, <<120>>, SampleData))

AddCollections ==
  /\ Building
  /\ Built(ippAddCollections(ipp, IPP_TAG_JOB, <<99>>,
                             <<SampleCollection, InnerCollection>>))

AddGroupedCollection ==
  /\ Building
  /\ Built(ippAddCollection(ipp, IPP_TAG_JOB, <<103>>, GroupedCollection))

AddSeparator ==
  /\ Building
  /\ Built(ippAddSeparator(ipp))

\* the state after an ippWriteIO call with result r
Wrote(blocking, r) ==
  /\ ipp' = r.ipp
  /\ dst' = r.dst
  /\ pool' = r.pool
  /\ log' = [log EXCEPT !.wcalls = @ + 1,
                        !.wnb = IF blocking THEN @ ELSE @ + 1,
                        !.ret = r.ret, !.err = r.err]
  /\ UNCHANGED <<src, rsp, heap, cg>>

\* one ippWriteIO call on the message
Write ==
  /\ src = EmptySource
  /\ log.ret \notin {IPP_ERROR, IPP_CRASH}
  /\ ipp.state # IPP_DATA
  /\ \E blocking \in BOOLEAN :
       Wrote(blocking, ippWriteIO(dst, pool, blocking, FALSE, ipp))

\* the transport hands the bytes written to the reader, which does not know
\* by which calls they were written
Transfer ==
  /\ ipp.state = IPP_DATA /\ src = EmptySource
  /\ src' = [EmptySource EXCEPT !.data = dst.taken]
  /\ log' = [log EXCEPT !.wcalls = 0, !.wnb = 0]
  /\ UNCHANGED <<ipp, dst, rsp, pool, heap, cg>>

\* the state after an ippReadIO call with result r
HasRead(blocking, r) ==
  /\ rsp' = r.ipp
  /\ src' = r.src
  /\ pool' = r.pool
  /\ log' = [log EXCEPT !.rcalls = @ + 1,
                        !.rnb = IF blocking THEN @ ELSE @ + 1,
                        !.ret = r.ret, !.err = r.err]
  /\ UNCHANGED <<ipp, dst, heap, cg>>

\* one ippReadIO call on the message rsp
Read ==
  /\ src # EmptySource
  /\ log.ret # IPP_ERROR
  /\ rsp.state # IPP_DATA
  /\ \E blocking \in BOOLEAN, moves \in BOOLEAN :
       HasRead(blocking, ippReadIO(src, pool, blocking, FALSE, rsp,
                                   [junk |-> 170, moves |-> moves]))

Next ==
  \/ NewRequest
  \/ SetHeader
  \/ AddInteger
  \/ AddIntegers
  \/ AddOutOfBand
  \/ AddBooleans
  \/ AddStrings
  \/ AddLangStrings
  \/ AddDate
  \/ AddRanges
  \/ AddResolutions
  \/ AddOctetString
  \/ AddCollections
  \/ AddGroupedCollection
  \/ AddSeparator
  \/ Write
  \/ Transfer
  \/ Read

Spec == Init /\ [][Next]_vars

(***************************************************************************)
(* What two messages have in common when they are the same message: the    *)
(* header fields and the attributes with their names, group tags, value    *)
(* tags and values, in list order.                                         *)
(***************************************************************************)
RECURSIVE Content(_)

ValueContent(v) ==
  IF "collection" \in DOMAIN v THEN [collection |-> Content(v.collection)] ELSE v

AttrContent(attr) ==
  [name |-> attr.name, group_tag |-> attr.group_tag,
   value_tag |-> attr.value_tag, num_values |-> attr.num_values,
   values |-> [k \in 1..attr.num_values |-> ValueContent(attr.values[k])]]

Content(m) ==
  [version |-> m.version, op_status |-> m.op_status,
   request_id |-> m.request_id,
   attrs |-> [k \in 1..Len(m.attrs) |-> AttrContent(m.attrs[k])]]

(***************************************************************************)
(* Valid messages: a named top-level attribute belongs to a group and has  *)
(* a value, a separator stands between two attributes of one group, the    *)
(* members of a collection are named and carry no group, a string is a     *)
(* C string, and only a string with language carries a language.           *)
(***************************************************************************)
RECURSIVE ValidCollection(_)

NoNul(str) == str # NULLSTR /\ \A k \in 1..Len(str) : str[k] # 0

ValidValue(tag, v) ==
  CASE tag = IPP_TAG_BEGIN_COLLECTION -> ValidCollection(v.collection)
    [] PlainStringTag(tag) -> NoNul(v.text) /\ v.charset = NULLSTR
    [] tag \in {IPP_TAG_TEXTLANG, IPP_TAG_NAMELANG} ->
         NoNul(v.text) /\ NoNul(v.charset)
    [] OTHER -> TRUE

ValidValues(attr) ==
  /\ NoNul(attr.name)
  /\ attr.num_values >= 1
  /\ \A k \in 1..attr.num_values : ValidValue(attr.value_tag, attr.values[k])

ValidCollection(c) ==
  \A a \in 1..Len(c.attrs) :
    c.attrs[a].group_tag = IPP_TAG_ZERO /\ ValidValues(c.attrs[a])

IsSeparator(attr) ==
  attr.name = NULLSTR /\ attr.group_tag = IPP_TAG_ZERO /\ attr.num_values = 0

ValidMessage(m) ==
  \A a \in 1..Len(m.attrs) :
    IF IsSeparator(m.attrs[a])
    THEN /\ 1 < a /\ a < Len(m.attrs)
         /\ ~IsSeparator(m.attrs[a - 1])
         /\ m.attrs[a - 1].group_tag = m.attrs[a + 1].group_tag
    ELSE /\ m.attrs[a].group_tag \notin {IPP_TAG_ZERO, IPP_TAG_END}
         /\ m.attrs[a].group_tag < IPP_TAG_UNSUPPORTED_VALUE
         /\ ValidValues(m.attrs[a])

\* the bytes one blocking ippWriteIO hands to the sink for message m
Encoded(m) == Concat(ippWriteFile(EmptySink, <<>>, m).dst.chunks)

\* rsp was decoded by a single blocking ippReadIO call
OneBlockingRead == log.rcalls = 1 /\ log.rnb = 0

\* C1: a valid message written by one blocking ippWriteIO and read from
\* those bytes by one blocking ippReadIO into a new message comes back in
\* state IPP_DATA with the same version, operation or status code and
\* request id and the same attributes: names, group tags, value tags and
\* values, in the same order.
RoundTrip ==
  (OneBlockingRead /\ ValidMessage(ipp) /\ src.data = Encoded(ipp))
    => /\ log.ret = IPP_DATA
       /\ rsp.state = IPP_DATA
       /\ Content(rsp) = Content(ipp)

\* a message with header fields set, a collection attribute holding two
\* collections and an attribute of another group, read back
RoundTripWitness ==
  /\ OneBlockingRead /\ ValidMessage(ipp) /\ src.data = Encoded(ipp)
  /\ rsp.state = IPP_DATA
  /\ Len(ipp.attrs) = 2
  /\ ipp.attrs[1].value_tag = IPP_TAG_BEGIN_COLLECTION
  /\ ipp.attrs[1].num_values = 2
  /\ ipp.attrs[2].group_tag = IPP_TAG_PRINTER
  /\ ipp.attrs[2].num_values = 2

\* the message one blocking ippReadIO builds from a stream, read into a
\* new message
Decoded(bytes) ==
  ippReadIO([EmptySource EXCEPT !.data = bytes], <<>>, TRUE, FALSE, ippNew,
            [junk |-> 170, moves |-> FALSE]).ipp

RECURSIVE TotalValuesFrom(_, _)
TotalValuesFrom(m, k) ==
  IF k > Len(m.attrs) THEN 0
  ELSE m.attrs[k].num_values + TotalValuesFrom(m, k + 1)

\* the values the top-level attributes of m hold
TotalValues(m) == TotalValuesFrom(m, 1)

\* the calls that read rsp returned IPP_DATA at last
ReadComplete == log.rcalls >= 1 /\ log.ret = IPP_DATA /\ rsp.state = IPP_DATA

SameAsBlockingRead == ReadComplete => Content(rsp) = Content(Decoded(src.data))

\* a step that is one ippReadIO call with blocking = 0 on a message whose
\* header was read
NonBlockingReadStep ==
  /\ log'.rcalls = log.rcalls + 1
  /\ log'.rnb = log.rnb + 1
  /\ rsp.state = IPP_ATTRIBUTE

\* C3: over a source that delivers every byte asked for, the ippReadIO
\* calls that end with IPP_DATA, each of which may pass blocking = 0, build
\* the message a single blocking call builds from the same bytes, and a
\* call with blocking = 0 made after the header adds at most one value to
\* the top-level message, returning IPP_ATTRIBUTE when it added one.
NonBlockingRead ==
  /\ []SameAsBlockingRead
  /\ [][NonBlockingReadStep =>
          /\ TotalValues(rsp') <= TotalValues(rsp) + 1
          /\ TotalValues(rsp') = TotalValues(rsp) + 1 => log'.ret = IPP_ATTRIBUTE
       ]_vars

\* a three-valued attribute read by non-blocking calls only
NonBlockingReadWitness ==
  /\ ReadComplete
  /\ log.rnb = log.rcalls
  /\ log.rcalls >= 5
  /\ Len(rsp.attrs) >= 1
  /\ rsp.attrs[1].num_values = 3

\* the calls that wrote ipp returned IPP_DATA at last
WriteComplete ==
  /\ src = EmptySource
  /\ log.wcalls >= 1
  /\ log.ret = IPP_DATA
  /\ ipp.state = IPP_DATA

\* C4: the bytes handed to the sink by the ippWriteIO calls that take a
\* message from IPP_IDLE to IPP_DATA, each of which may pass blocking = 0,
\* are, concatenated, the bytes a single blocking call writes: every
\* attribute once and in list order, no group tag twice, one end tag.
NonBlockingWrite == WriteComplete => Concat(dst.chunks) = Encoded(ipp)

\* three attributes of one group written by non-blocking calls only
NonBlockingWriteWitness ==
  /\ WriteComplete
  /\ log.wnb = log.wcalls
  /\ log.wcalls = 4
  /\ Len(ipp.attrs) = 3
  /\ \A a \in 1..3 : ipp.attrs[a].group_tag = IPP_TAG_OPERATION

\* ipp was written by a single blocking ippWriteIO call that succeeded
OneBlockingWrite == WriteComplete /\ log.wcalls = 1 /\ log.wnb = 0

\* C5: ippLength of a message that a blocking top-level ippWriteIO wrote
\* is the number of bytes that call handed to the sink, and ippLength of
\* no message is 0.
LengthIsBytesWritten ==
  /\ ippLength(NoMessage) = 0
  /\ OneBlockingWrite => ippLength(ipp) = Len(Concat(dst.chunks))

(***************************************************************************)
(* The wire format as a sequence of items, each found where the one       *)
(* before it ends: a delimiter (a tag below 0x10, one byte) or an entry    *)
(* (tag, name length, name, value length, value).                          *)
(***************************************************************************)
Delimiter(tag) == [delim |-> TRUE, tag |-> tag, name |-> <<>>, value |-> <<>>]
Entry(tag, name, value) ==
  [delim |-> FALSE, tag |-> tag, name |-> name, value |-> value]

\* the entry at offset p whose name ends at offset q
EntryAt(bytes, p, q) ==
  Entry(bytes[p + 1], SubSeq(bytes, p + 4, q),
        SubSeq(bytes, q + 3, q + 2 + Get16(bytes, q + 1)))

RECURSIVE WireItems(_, _)
WireItems(bytes, p) ==
  IF p >= Len(bytes) THEN <<>>
  ELSE IF bytes[p + 1] < IPP_TAG_UNSUPPORTED_VALUE
  THEN <<Delimiter(bytes[p + 1])>> \o WireItems(bytes, p + 1)
  ELSE <<EntryAt(bytes, p, p + 3 + Get16(bytes, p + 2))>> \o
       WireItems(bytes, p + 3 + Get16(bytes, p + 2) + 2 +
                        Get16(bytes, p + 3 + Get16(bytes, p + 2) + 1))

IsEntry(item) == ~item.delim

\* the entries of the attributes section of a top-level message
WireEntries(bytes) == SelectSeq(WireItems(bytes, 8), IsEntry)

\* the value field of a value that is not a collection
Payload(tag, v) ==
  CASE tag \in {IPP_TAG_INTEGER, IPP_TAG_ENUM} -> Put32(v.integer)
    [] tag = IPP_TAG_BOOLEAN -> <<v.boolean>>
    [] PlainStringTag(tag) -> StrBytes(v.text)
    [] tag = IPP_TAG_DATE -> v.date
    [] tag = IPP_TAG_RESOLUTION -> Put32(v.xres) \o Put32(v.yres) \o <<v.units>>
    [] tag = IPP_TAG_RANGE -> Put32(v.lower) \o Put32(v.upper)
    [] tag \in {IPP_TAG_TEXTLANG, IPP_TAG_NAMELANG} ->
         Put16(StrLen(v.charset)) \o StrBytes(v.charset) \o
         Put16(StrLen(v.text)) \o StrBytes(v.text)
    [] OTHER -> v.data

RECURSIVE MemberEntries(_, _)
RECURSIVE ValuesEntries(_, _, _)

\* value k of an attribute, announced with this name
ValueEntries(attr, name, k) ==
  IF attr.value_tag = IPP_TAG_BEGIN_COLLECTION
  THEN <<Entry(IPP_TAG_BEGIN_COLLECTION, name, <<>>)>> \o
       MemberEntries(attr.values[k].collection, 1) \o
       <<Entry(IPP_TAG_END_COLLECTION, <<>>, <<>>)>>
  ELSE <<Entry(attr.value_tag, name, Payload(attr.value_tag, attr.values[k]))>>

\* the values of an attribute from value k on: the first carries the name
ValuesEntries(attr, name, k) ==
  IF k > attr.num_values THEN <<>>
  ELSE ValueEntries(attr, IF k = 1 THEN name ELSE <<>>, k) \o
       ValuesEntries(attr, name, k + 1)

\* the members of a collection from member a on: a member-name entry, then
\* the values with empty names
MemberEntries(c, a) ==
  IF a > Len(c.attrs) THEN <<>>
  ELSE <<Entry(IPP_TAG_MEMBERNAME, <<>>, c.attrs[a].name)>> \o
       ValuesEntries(c.attrs[a], <<>>, 1) \o MemberEntries(c, a + 1)

\* the top-level attributes the encoder writes: named, in a group
IsWritten(attr) == attr.name # NULLSTR /\ attr.group_tag # IPP_TAG_ZERO
IsNamed(attr) == attr.name # NULLSTR

RECURSIVE MessageEntries(_, _)
MessageEntries(m, a) ==
  IF a > Len(m.attrs) THEN <<>>
  ELSE (IF IsWritten(m.attrs[a])
        THEN ValuesEntries(m.attrs[a], m.attrs[a].name, 1) ELSE <<>>) \o
       MessageEntries(m, a + 1)

RECURSIVE Members(_)

\* a value, a collection value by its members
MemberValue(v) ==
  IF "collection" \in DOMAIN v THEN [collection |-> Members(v.collection)]
  ELSE v

\* name, value tag and values of an attribute
NamedValues(attr) ==
  [name |-> attr.name, value_tag |-> attr.value_tag,
   values |-> [k \in 1..attr.num_values |-> MemberValue(attr.values[k])]]

\* the members of a collection: names, value tags and values
Members(c) == [a \in 1..Len(c.attrs) |-> NamedValues(c.attrs[a])]

AttributesWritten(m) ==
  LET w == SelectSeq(m.attrs, IsWritten)
  IN  [k \in 1..Len(w) |-> NamedValues(w[k])]

AttributesRead(m) ==
  LET r == SelectSeq(m.attrs, IsNamed)
  IN  [k \in 1..Len(r) |-> NamedValues(r[k])]

NoCollections(m) ==
  \A a \in 1..Len(m.attrs) : m.attrs[a].value_tag # IPP_TAG_BEGIN_COLLECTION

\* C6: an attribute with N values is written as one entry with the value
\* tag and the name, then N-1 entries with the same value tag and an empty
\* name, the values in order; read back, the entries of an attribute form
\* one attribute with the N values in order.
SetOfValues ==
  (ipp.state = IPP_DATA /\ NoCollections(ipp))
    => /\ WireEntries(Concat(dst.chunks)) = MessageEntries(ipp, 1)
       /\ ReadComplete => AttributesRead(rsp) = AttributesWritten(ipp)

\* a three-valued attribute and a two-valued attribute, written and read
SetOfValuesWitness ==
  /\ ipp.state = IPP_DATA /\ NoCollections(ipp)
  /\ ReadComplete
  /\ Len(ipp.attrs) = 2
  /\ ipp.attrs[1].num_values = 3
  /\ ipp.attrs[2].num_values = 2
  /\ Len(WireEntries(Concat(dst.chunks))) = 5

\* a collection value of a top-level attribute has a collection member
HasNestedCollection(m) ==
  \E a \in 1..Len(m.attrs) :
    /\ m.attrs[a].value_tag = IPP_TAG_BEGIN_COLLECTION
    /\ IsWritten(m.attrs[a])
    /\ \E k \in 1..m.attrs[a].num_values :
         \E b \in 1..Len(m.attrs[a].values[k].collection.attrs) :
           m.attrs[a].values[k].collection.attrs[b].value_tag =
             IPP_TAG_BEGIN_COLLECTION

IsBegin(item) == ~item.delim /\ item.tag = IPP_TAG_BEGIN_COLLECTION
IsEnd(item) == item = Entry(IPP_TAG_END_COLLECTION, <<>>, <<>>)
IsEndTag(item) == item = Delimiter(IPP_TAG_END)
IsMemberName(item) == ~item.delim /\ item.tag = IPP_TAG_MEMBERNAME

\* what the items of a written message show of its collections
CollectionMarkers(items) ==
  /\ \* each collection value opens with an entry whose value is empty
     \A k \in 1..Len(items) : IsBegin(items[k]) => items[k].value = <<>>
  /\ \* a member name is the value of an entry with an empty name, and the
     \* entry after it, the member's first value, has an empty name too
     \A k \in 1..Len(items) :
       IsMemberName(items[k]) =>
         /\ items[k].name = <<>>
         /\ k < Len(items)
         /\ ~items[k + 1].delim /\ items[k + 1].name = <<>>
  /\ \* as many end-collection markers as collection values
     Len(SelectSeq(items, IsEnd)) = Len(SelectSeq(items, IsBegin))
  /\ \* one end tag, the last byte
     Len(SelectSeq(items, IsEndTag)) = 1 /\ IsEndTag(items[Len(items)])

\* C7: of a message with a collection value that has a collection member,
\* ippWriteIO writes each collection value as a begin-collection entry
\* with an empty value, each member as a member-name entry (tag 0x4a,
\* empty name, the member's name as value) followed by the member's values
\* with empty names, one end-collection marker 37 00 00 00 00 per
\* collection value, and one end tag 03 as the last byte of the message;
\* read back, both levels have their member names and values.
NestedCollections ==
  (ipp.state = IPP_DATA /\ HasNestedCollection(ipp))
    => /\ WireEntries(Concat(dst.chunks)) = MessageEntries(ipp, 1)
       /\ CollectionMarkers(WireItems(Concat(dst.chunks), 8))
       /\ ReadComplete => AttributesRead(rsp) = AttributesWritten(ipp)

\* the attribute of two collection values, the first with a collection
\* member, written as three begin and three end markers and read back
NestedCollectionsWitness ==
  /\ ipp.state = IPP_DATA /\ HasNestedCollection(ipp)
  /\ ReadComplete
  /\ Len(SelectSeq(WireItems(Concat(dst.chunks), 8), IsEnd)) = 3
  /\ Len(rsp.attrs) = 2
  /\ rsp.attrs[2].value_tag = IPP_TAG_BEGIN_COLLECTION
  /\ rsp.attrs[2].values[1].collection.attrs[2].value_tag =
       IPP_TAG_BEGIN_COLLECTION

\* the request of the example: version 1.1, operation 0x0002, request id 1,
\* attributes-charset and attributes-natural-language in the operation group
IsExampleRequest ==
  Content(ipp) =
    [version |-> <<1, 1>>, op_status |-> 2, request_id |-> 1,
     attrs |-> <<[name |-> AttributesCharset, group_tag |-> IPP_TAG_OPERATION,
                  value_tag |-> IPP_TAG_CHARSET, num_values |-> 1,
                  values |-> <<[text |-> Utf8, charset |-> NULLSTR]>>],
                 [name |-> AttributesNaturalLanguage,
                  group_tag |-> IPP_TAG_OPERATION,
                  value_tag |-> IPP_TAG_LANGUAGE, num_values |-> 1,
                  values |-> <<[text |-> LangEn, charset |-> NULLSTR]>>]>>]

\* 01 01 00 02 00 00 00 01, 01, 47 00 12 <name> 00 05 "utf-8",
\* 48 00 <n> <name> 00 02 "en", 03
ExampleBytes(n) ==
  <<1, 1, 0, 2, 0, 0, 0, 1>> \o <<1>> \o
  <<71, 0, 18>> \o AttributesCharset \o <<0, 5>> \o Utf8 \o
  <<72, 0, n>> \o AttributesNaturalLanguage \o <<0, 2>> \o LangEn \o <<3>>

\* C10 as stated: the name length of attributes-natural-language is 1c
ExampleRequestBytesAsStated ==
  (ipp.state = IPP_DATA /\ IsExampleRequest)
    => Concat(dst.chunks) = ExampleBytes(28)

\* C10: the example request is written as 01 01 00 02 00 00 00 01, the
\* group tag 01, 47 00 12 attributes-charset 00 05 utf-8, 48 00 1b
\* attributes-natural-language 00 02 en, and 03: the name of the second
\* attribute has 27 characters, 1b.
ExampleRequestBytes ==
  (ipp.state = IPP_DATA /\ IsExampleRequest)
    => Concat(dst.chunks) = ExampleBytes(27)

\* the example request written, the header and each attribute by a call
ExampleRequestWitness ==
  /\ ipp.state = IPP_DATA /\ IsExampleRequest
  /\ Len(Concat(dst.chunks)) = 72
  /\ Len(dst.chunks) = 4

(***************************************************************************)
(* A second specification: the messages of a small set are written, and    *)
(* the stream reaches the reader cut short, with a name length made too    *)
(* large, with the value tag of a further value replaced, or one byte per  *)
(* read().                                                                 *)
(***************************************************************************)
\* ipp://h/p1, a string of 10 bytes
SampleUri == <<105, 112, 112, 58, 47, 47, 104, 47, 112, 49>>

StringsMessage ==
  ippAddStrings(
    ippAddString(ippNew, IPP_TAG_OPERATION, IPP_TAG_URI, <<117>>, NULLSTR,
                 SampleUri),
    IPP_TAG_JOB, IPP_TAG_KEYWORD, <<107>>, NULLSTR, SampleStrings)

NumbersMessage ==
  ippAddStrings(
    ippAddIntegers(ippNew, IPP_TAG_JOB, IPP_TAG_ENUM, <<101>>, SampleInts),
    IPP_TAG_JOB, IPP_TAG_TEXTLANG, <<116>>, LangEn, Prefix(SampleStrings, 2))

CollectionsMessage ==
  ippAddCollections(ippNew, IPP_TAG_JOB, <<99>>,
                    <<SampleCollection, InnerCollection>>)

DecodeMessages == {StringsMessage, NumbersMessage, CollectionsMessage}

\* the tags a value tag is replaced by
OtherTags == {IPP_TAG_INTEGER, IPP_TAG_ENUM, IPP_TAG_NAME, IPP_TAG_NOVALUE}

\* name lengths of IPP_BUF_SIZE and more
LongNames == {<<127, 255>>, <<255, 255>>}

\* the offsets of the entries of a stream from offset p on, each with the
\* depth of collections it is at and whether its name is empty
RECURSIVE EntryOffsets(_, _, _)
EntryOffsets(bytes, p, depth) ==
  IF p >= Len(bytes) THEN {}
  ELSE IF bytes[p + 1] < IPP_TAG_UNSUPPORTED_VALUE
  THEN EntryOffsets(bytes, p + 1, depth)
  ELSE {[at |-> p, depth |-> depth, unnamed |-> Get16(bytes, p + 2) = 0]} \cup
       EntryOffsets(bytes,
                    p + 3 + Get16(bytes, p + 2) + 2 +
                      Get16(bytes, p + 3 + Get16(bytes, p + 2) + 1),
                    CASE bytes[p + 1] = IPP_TAG_BEGIN_COLLECTION -> depth + 1
                      [] bytes[p + 1] = IPP_TAG_END_COLLECTION -> depth - 1
                      [] OTHER -> depth)

Prepare ==
  /\ Building /\ log.calls = 0
  /\ \E m \in DecodeMessages : Built(m)

\* the stream on its way to a reader that has not read yet
InTransit ==
  /\ src # EmptySource
  /\ log.rcalls = 0
  /\ log.fault = NoFault
  /\ src.chunk = WholeField

\* the stream ends after k bytes
Truncate ==
  /\ InTransit
  /\ \E k \in 1..(Len(src.data) - 1) :
       /\ src' = [src EXCEPT !.data = SubSeq(@, 1, k)]
       /\ log' = [log EXCEPT !.fault = [NoFault EXCEPT !.kind = "trunc", !.at = k]]
  /\ UNCHANGED <<ipp, dst, rsp, pool, heap, cg>>

\* the name length of an entry becomes IPP_BUF_SIZE or more
Oversize ==
  /\ InTransit
  /\ \E e \in EntryOffsets(src.data, 8, 0), n \in LongNames :
       /\ src' = [src EXCEPT !.data[e.at + 2] = n[1], !.data[e.at + 3] = n[2]]
       /\ log' = [log EXCEPT
                    !.fault = [NoFault EXCEPT !.kind = "namelen", !.at = e.at]]
  /\ UNCHANGED <<ipp, dst, rsp, pool, heap, cg>>

\* a further value of a top-level attribute comes with another value tag
Retag ==
  /\ InTransit
  /\ \E e \in EntryOffsets(src.data, 8, 0), tag \in OtherTags :
       /\ e.depth = 0 /\ e.unnamed
       /\ tag # src.data[e.at + 1]
       /\ src' = [src EXCEPT !.data[e.at + 1] = tag]
       /\ log' = [log EXCEPT
                    !.fault = [kind |-> "settag", at |-> e.at, tag |-> tag,
                               was |-> src.data[e.at + 1]]]
  /\ UNCHANGED <<ipp, dst, rsp, pool, heap, cg>>

\* the source delivers one byte per read()
Trickle ==
  /\ InTransit
  /\ src' = [src EXCEPT !.chunk = 1]
  /\ UNCHANGED <<ipp, dst, rsp, pool, log, heap, cg>>

NextDecode ==
  \/ Prepare
  \/ Write
  \/ Transfer
  \/ Truncate
  \/ Oversize
  \/ Retag
  \/ Trickle
  \/ Read

SpecDecode == Init /\ [][NextDecode]_vars

\* the stream arrived as it was written
Intact == log.fault = NoFault

\* the reader was called on an intact stream that comes one byte per read()
OneByteReads == Intact /\ src.chunk = 1 /\ log.rcalls >= 1

\* C2 as stated: over a source that delivers one byte per call, the calls
\* with blocking = 0 build the message of one blocking call and none of
\* them returns IPP_ERROR.
ResumableByteByByte ==
  /\ OneByteReads => log.ret # IPP_ERROR
  /\ (OneByteReads /\ ReadComplete) => Content(rsp) = Content(ipp)

\* C2: a call is resumed where the call before it returned, between two
\* values, and never inside a field.  Over a source that delivers one byte
\* per call the first call gets one byte of the 8 of the header and
\* returns IPP_ERROR, the message left in IPP_HEADER without an attribute;
\* over a source that delivers every field whole, the calls that end with
\* IPP_DATA have read each byte of the stream once and built the message
\* that was written.
ResumableBetweenValues ==
  /\ OneByteReads =>
       /\ log.ret = IPP_ERROR
       /\ log.err = "Unable to read header"
       /\ log.rcalls = 1
       /\ src.pos = 1
       /\ rsp.state = IPP_HEADER
       /\ rsp.attrs = <<>>
  /\ (Intact /\ src.chunk = WholeField /\ ReadComplete) =>
       /\ src.pos = Len(src.data)
       /\ ~src.short
       /\ Content(rsp) = Content(Decoded(src.data))
       /\ AttributesRead(rsp) = AttributesWritten(ipp)

\* a non-blocking call on a stream that comes one byte per read()
ResumableWitness ==
  /\ OneByteReads
  /\ log.rnb = 1
  /\ Len(src.data) > 8
  /\ log.ret = IPP_ERROR

\* the reader went past the offset of the entry that was changed
FaultReached ==
  /\ log.fault.kind \in {"namelen", "settag"}
  /\ log.rcalls >= 1
  /\ src.pos > log.fault.at

\* the message as it is when the bytes before the changed entry are read
BeforeFault ==
  ippReadIO([EmptySource EXCEPT !.data = SubSeq(src.data, 1, log.fault.at)],
            <<>>, TRUE, FALSE, ippNew, [junk |-> 170, moves |-> FALSE]).ipp

\* the changed entry is refused and leaves the message as it was
FaultRefused ==
  /\ log.ret = IPP_ERROR
  /\ Content(rsp) = Content(BeforeFault)

\* string tags stand for one another in the values of one attribute, and
\* the no-value tag stands for a string tag
Interchangeable(was, tag) ==
  /\ was \in {IPP_TAG_TEXTLANG, IPP_TAG_NAMELANG} \/ PlainStringTag(was)
  /\ \/ tag \in {IPP_TAG_TEXTLANG, IPP_TAG_NAMELANG, IPP_TAG_NOVALUE}
     \/ PlainStringTag(tag)

ValuesAsWritten ==
  /\ Len(rsp.attrs) <= Len(ipp.attrs)
  /\ \A a \in 1..Len(rsp.attrs) :
       /\ rsp.attrs[a].num_values <= ipp.attrs[a].num_values
       /\ \A k \in 1..rsp.attrs[a].num_values :
            MemberValue(rsp.attrs[a].values[k]) =
              MemberValue(ipp.attrs[a].values[k])

\* C9: a read() that returns fewer bytes than ippReadIO asked for, for
\* whatever field, makes ippReadIO return IPP_ERROR, and of a stream that
\* ends inside a string value the message holds no shortened string: the
\* values it holds are those that were written.
ShortReadRefused ==
  /\ src.short => log.ret = IPP_ERROR
  /\ log.fault.kind = "trunc" => ValuesAsWritten

\* a blocking call on a stream that ends 4 bytes into the 10 bytes of the
\* first attribute's string
ShortReadRefusedWitness ==
  /\ log.fault.kind = "trunc"
  /\ log.fault.at = 19
  /\ src.data[14] = 0 /\ src.data[15] = 10
  /\ src.short
  /\ src.pos = 19
  /\ log.rnb = 0
  /\ log.ret = IPP_ERROR
  /\ Len(rsp.attrs) = 1
  /\ rsp.attrs[1].num_values = 0

(***************************************************************************)
(* The 32-bit quantities.  An application sets one number, as an integer   *)
(* or enum value, as a bound of a range, as a resolution or as the request *)
(* id; the message is written, the bytes are handed over and read.         *)
(***************************************************************************)
\* the values around every byte boundary of a 32-bit int
SampleNumbers ==
  {-2147483647 - 1, -2147483647, -16777217, -16777216, -65537, -65536,
   -257, -256, -129, -128, -1, 0, 1, 10, 127, 128, 255, 256, 65535, 65536,
   16777215, 16777216, 2147483646, 2147483647}

NumberKinds == {"integer", "enum", "lower", "upper", "xres", "yres", "request_id"}

\* the message that holds number v as a quantity of this kind
NumberMessage(kind, v) ==
  CASE kind = "integer" ->
         ippAddIntegers(ippNew, IPP_TAG_JOB, IPP_TAG_INTEGER, <<105>>, <<v>>)
    [] kind = "enum" ->
         ippAddIntegers(ippNew, IPP_TAG_JOB, IPP_TAG_ENUM, <<101>>, <<v>>)
    [] kind = "lower" -> ippAddRanges(ippNew, IPP_TAG_JOB, <<114>>, <<v>>, <<10>>)
    [] kind = "upper" -> ippAddRanges(ippNew, IPP_TAG_JOB, <<114>>, <<1>>, <<v>>)
    [] kind = "xres" ->
         ippAddResolutions(ippNew, IPP_TAG_PRINTER, <<115>>, 3, <<v>>, <<600>>)
    [] kind = "yres" ->
         ippAddResolutions(ippNew, IPP_TAG_PRINTER, <<115>>, 3, <<600>>, <<v>>)
    [] OTHER -> [ippNew EXCEPT !.request_id = v]

SetNumber ==
  /\ Building /\ log.calls = 0
  /\ \E kind \in NumberKinds, v \in SampleNumbers : Built(NumberMessage(kind, v))

NextNumbers ==
  \/ SetNumber
  \/ Write
  \/ Transfer
  \/ Read

SpecNumbers == Init /\ [][NextNumbers]_vars

\* the number that 4 bytes hold, most significant byte first, in two's
\* complement: the first byte carries the sign
TwosComplement(b) ==
  (IF b[1] >= 128 THEN b[1] - 256 ELSE b[1]) * 16777216 +
  b[2] * 65536 + b[3] * 256 + b[4]

\* the 32-bit quantities of a value, in the order of its value field
Quantities(tag, v) ==
  CASE tag \in {IPP_TAG_INTEGER, IPP_TAG_ENUM} -> <<v.integer>>
    [] tag = IPP_TAG_RANGE -> <<v.lower, v.upper>>
    [] tag = IPP_TAG_RESOLUTION -> <<v.xres, v.yres>>
    [] OTHER -> <<>>

\* the message holds one quantity-valued attribute, or none
OneNumber(m) ==
  Len(m.attrs) <= 1 /\
  \A a \in 1..Len(m.attrs) :
    /\ m.attrs[a].num_values = 1
    /\ Quantities(m.attrs[a].value_tag, m.attrs[a].values[1]) # <<>>

\* every quantity of the message is in the bytes as 4 bytes, big-endian
\* two's complement, under the value length 4, 8 or 9
QuantitiesWritten(m, bytes) ==
  /\ TwosComplement(SubSeq(bytes, 5, 8)) = m.request_id
  /\ Len(WireEntries(bytes)) = Len(m.attrs)
  /\ \A a \in 1..Len(m.attrs) :
       LET q == Quantities(m.attrs[a].value_tag, m.attrs[a].values[1])
           e == WireEntries(bytes)[a]
       IN  /\ Len(e.value) =
                IF m.attrs[a].value_tag = IPP_TAG_RESOLUTION THEN 9
                ELSE 4 * Len(q)
           /\ \A k \in 1..Len(q) :
                TwosComplement(SubSeq(e.value, 4 * k - 3, 4 * k)) = q[k]

\* the range 1 to 10 was written
IsRangeOneToTen(m) ==
  /\ Len(m.attrs) = 1
  /\ m.attrs[1].value_tag = IPP_TAG_RANGE
  /\ m.attrs[1].values[1] = [lower |-> 1, upper |-> 10]

\* the last n bytes of a stream
Suffix(bytes, n) == SubSeq(bytes, Len(bytes) - n + 1, Len(bytes))

\* C11: every 32-bit signed quantity (integer and enum value, the bounds
\* of a range, the two resolutions, the request id) is written as 4 bytes,
\* big-endian two's complement, and read back as the same number, negative
\* numbers included; the range 1 to 10 is written as the value length
\* 00 08 and the 8 bytes 00 00 00 01 00 00 00 0a.
NumbersBigEndian ==
  /\ (WriteComplete /\ OneNumber(ipp)) =>
        QuantitiesWritten(ipp, Concat(dst.chunks))
  /\ (ReadComplete /\ OneNumber(ipp)) => Content(rsp) = Content(ipp)
  /\ (WriteComplete /\ IsRangeOneToTen(ipp)) =>
        Suffix(Concat(dst.chunks), 11) = <<0, 8, 0, 0, 0, 1, 0, 0, 0, 10, 3>>

\* the least 32-bit number was written as a range bound and read back
NumbersBigEndianWitness ==
  /\ ReadComplete
  /\ Len(ipp.attrs) = 1
  /\ ipp.attrs[1].value_tag = IPP_TAG_RANGE
  /\ ipp.attrs[1].values[1].lower = -2147483647 - 1
  /\ rsp.attrs[1].values[1].lower < 0
  /\ SubSeq(src.data, 14, 19) = <<0, 8, 128, 0, 0, 0>>

(***************************************************************************)
(* Messages in memory.  heap.msgs[m] is the ipp_t at address m and         *)
(* heap.attrs[a] the ipp_attribute_t at address a; an address is never     *)
(* given out twice, so a pointer to freed memory can be told from a        *)
(* pointer to what was allocated later.  held[m] counts the pointers to    *)
(* m the application got from ippNew and has not passed to ippDelete,      *)
(* frees[m] the calls of free(m); bad says that freed memory was used.     *)
(* The values of a collection attribute are the addresses of messages,     *)
(* those of an octet string the addresses in heap.data of what malloc()    *)
(* gave for them.                                                          *)
(***************************************************************************)
MaxMessages == 3
MaxAttrs == 2

\* the names of the attributes the application adds: "c" and "i"
NameC == <<99>>
NameI == <<105>>

\* calloc(1, sizeof(ipp_t)) with use 1; the caller holds the pointer
HeapNew(h) ==
  [h EXCEPT !.msgs = Append(@, [use |-> 1, freed |-> FALSE, attrs |-> NULL,
                                last |-> NULL, current |-> NULL,
                                prev |-> NULL, state |-> IPP_IDLE]),
            !.held = Append(@, 1),
            !.frees = Append(@, 0)]

\* an attribute linked in front of the list
LinkedFirst(h, m, a) ==
  [h EXCEPT !.attrs[a].next = h.msgs[m].attrs,
            !.msgs[m].attrs = a,
            !.msgs[m].last = IF @ = NULL THEN a ELSE @]

\* the attribute is linked behind ipp->last
Linked(h, m, a) ==
  [(IF h.msgs[m].last = NULL THEN [h EXCEPT !.msgs[m].attrs = a]
    ELSE [h EXCEPT !.attrs[h.msgs[m].last].next = a])
   EXCEPT !.msgs[m].last = a]

\* _ippAddAttr(ipp, num_values) and the caller's assignments to the new
\* attribute
HeapAddAttr(h, m, name, value_tag, values) ==
  Linked([h EXCEPT !.attrs = Append(@, [next |-> NULL, name |-> name,
                                        value_tag |-> value_tag,
                                        values |-> values, owner |-> m,
                                        cap |-> Len(values),
                                        freed |-> FALSE])],
         m, Len(h.attrs) + 1)

RECURSIVE UseAll(_, _, _)
\* value->collection = values[i]; value->collection->use ++;
UseAll(h, values, k) ==
  IF k > Len(values) THEN h
  ELSE UseAll([h EXCEPT !.msgs[values[k]].use = @ + 1], values, k + 1)

\* ippAddCollection and ippAddCollections on messages in memory
HeapAddCollections(h, m, name, values) ==
  UseAll(HeapAddAttr(h, m, name, IPP_TAG_BEGIN_COLLECTION, values), values, 1)

RECURSIVE ippDelete(_, _)
RECURSIVE _ippFreeAttr(_, _)
RECURSIVE DeleteValues(_, _, _)
RECURSIVE FreeData(_, _, _)
RECURSIVE FreeAttrs(_, _, _)

\* for each value: ippDelete(value->collection)
DeleteValues(h, values, k) ==
  IF k > Len(values) THEN h
  ELSE DeleteValues(ippDelete(h, values[k]), values, k + 1)

\* for each value: free(value->unknown.data)
FreeData(h, values, k) ==
  IF k > Len(values) THEN h
  ELSE FreeData([h EXCEPT !.data[values[k]].freed = TRUE,
                          !.bad = @ \/ h.data[values[k]].freed],
                values, k + 1)

\* the pointers a freed attribute held are released, then free(attr)
_ippFreeAttr(h, a) ==
  IF h.attrs[a].freed THEN [h EXCEPT !.bad = TRUE]
  ELSE [(IF h.attrs[a].value_tag = IPP_TAG_BEGIN_COLLECTION
         THEN DeleteValues(h, h.attrs[a].values, 1)
         ELSE IF h.attrs[a].value_tag = IPP_TAG_STRING
         THEN FreeData(h, h.attrs[a].values, 1) ELSE h)
        EXCEPT !.attrs[a].freed = TRUE]

\* for (attr = ipp->attrs; attr != NULL; attr = next)
\*   { next = attr->next; _ippFreeAttr(attr); }
FreeAttrs(h, a, next) ==
  IF a = NULL THEN h
  ELSE FreeAttrs(_ippFreeAttr(h, a), next,
                 IF next = NULL THEN NULL ELSE h.attrs[next].next)

\* free(ipp)
FreeMsg(h, m) == [h EXCEPT !.msgs[m].freed = TRUE, !.frees[m] = @ + 1]

\* a count of 2 in place of the count of 1 where the message is freed
ippDeleteEarly(h, m) ==
  IF m = NULL THEN h
  ELSE IF h.msgs[m].freed THEN [h EXCEPT !.bad = TRUE]
  ELSE IF h.msgs[m].use - 1 > 1 THEN [h EXCEPT !.msgs[m].use = @ - 1]
  ELSE FreeMsg(FreeAttrs([h EXCEPT !.msgs[m].use = @ - 1], h.msgs[m].attrs,
                         IF h.msgs[m].attrs = NULL THEN NULL
                         ELSE h.attrs[h.msgs[m].attrs].next), m)

\* ipp->use --; if (ipp->use > 0) return; the attributes are freed, then
\* the message
ippDelete(h, m) ==
  IF m = NULL THEN h
  ELSE IF h.msgs[m].freed THEN [h EXCEPT !.bad = TRUE]
  ELSE IF h.msgs[m].use - 1 > 0 THEN [h EXCEPT !.msgs[m].use = @ - 1]
  ELSE FreeMsg(FreeAttrs([h EXCEPT !.msgs[m].use = @ - 1], h.msgs[m].attrs,
                         IF h.msgs[m].attrs = NULL THEN NULL
                         ELSE h.attrs[h.msgs[m].attrs].next), m)

RECURSIVE FindInList(_, _, _, _)
\* for (current = ipp->attrs, prev = NULL;
\*      current != NULL && current != attr;
\*      prev = current, current = current->next);
FindInList(h, current, prev, attr) ==
  IF current = NULL \/ current = attr
  THEN [current |-> current, prev |-> prev]
  ELSE FindInList(h, h.attrs[current].next, current, attr)

\* the attribute found is taken out of the list and freed
Spliced(h, m, f) ==
  _ippFreeAttr(
    [(IF f.prev # NULL
      THEN [h EXCEPT !.attrs[f.prev].next = h.attrs[f.current].next]
      ELSE [h EXCEPT !.msgs[m].attrs = h.attrs[f.current].next])
     EXCEPT !.msgs[m].last = IF f.current = @ THEN f.prev ELSE @],
    f.current)

DeleteFound(h, m, f) == IF f.current # NULL THEN Spliced(h, m, f) ELSE h

ippDeleteAttribute(h, m, attr) ==
  DeleteFound(h, m, FindInList(h, h.msgs[m].attrs, NULL, attr))

RECURSIVE FindFrom(_, _, _, _, _)
\* for (; attr != NULL; ipp->prev = attr, attr = attr->next)
\*   if (the name and the type match) { ipp->current = attr; return (attr); }
\* ipp->current = NULL; ipp->prev = NULL;
FindFrom(h, m, attr, name, type) ==
  IF attr = NULL
  THEN [h EXCEPT !.msgs[m].current = NULL, !.msgs[m].prev = NULL]
  ELSE IF h.attrs[attr].freed THEN [h EXCEPT !.bad = TRUE]
  ELSE IF /\ h.attrs[attr].name = name
          /\ (h.attrs[attr].value_tag = type \/ type = IPP_TAG_ZERO)
  THEN [h EXCEPT !.msgs[m].current = attr]
  ELSE FindFrom([h EXCEPT !.msgs[m].prev = attr], m, h.attrs[attr].next,
                name, type)

\* the search goes on behind ipp->current; ipp->current->next is read
\* from the attribute, freed or not
ippFindNextAttribute(h, m, name, type) ==
  IF h.msgs[m].current # NULL
  THEN IF h.attrs[h.msgs[m].current].freed THEN [h EXCEPT !.bad = TRUE]
       ELSE FindFrom([h EXCEPT !.msgs[m].prev = h.msgs[m].current], m,
                     h.attrs[h.msgs[m].current].next, name, type)
  ELSE FindFrom([h EXCEPT !.msgs[m].prev = NULL], m, h.msgs[m].attrs,
                name, type)

\* ipp->current = NULL; return (ippFindNextAttribute(ipp, name, type));
ippFindAttribute(h, m, name, type) ==
  ippFindNextAttribute([h EXCEPT !.msgs[m].current = NULL], m, name, type)

\* the messages the application holds a pointer to
Held == {m \in 1..Len(heap.msgs) : heap.held[m] > 0}

\* the attributes of a message the application holds, not freed
Attrs(m) ==
  {a \in 1..Len(heap.attrs) : heap.attrs[a].owner = m /\ ~heap.attrs[a].freed}

HeapStep(h) ==
  /\ heap' = h
  /\ UNCHANGED <<ipp, dst, src, rsp, pool, log, cg>>

New ==
  /\ ~heap.bad
  /\ Len(heap.msgs) < MaxMessages
  /\ HeapStep(HeapNew(heap))

HeapAddInteger ==
  /\ ~heap.bad
  /\ Len(heap.attrs) < MaxAttrs
  /\ \E m \in Held :
       HeapStep(HeapAddAttr(heap, m, NameI, IPP_TAG_INTEGER, <<7>>))

HeapAddCollection ==
  /\ ~heap.bad
  /\ Len(heap.attrs) < MaxAttrs
  /\ \E m \in Held, value \in Held :
       HeapStep(HeapAddCollections(heap, m, NameC, <<value>>))

\* the first attribute the application adds may hold a message twice
HeapAddCollectionTwice ==
  /\ ~heap.bad
  /\ heap.attrs = <<>>
  /\ \E m \in Held, value \in Held :
       HeapStep(HeapAddCollections(heap, m, NameC, <<value, value>>))

DeleteAttribute ==
  /\ ~heap.bad
  /\ \E m \in Held : \E attr \in Attrs(m) :
       HeapStep(ippDeleteAttribute(heap, m, attr))

\* the application gives up a pointer it holds
Delete ==
  /\ ~heap.bad
  /\ \E m \in Held :
       HeapStep(ippDelete([heap EXCEPT !.held[m] = @ - 1], m))

Find ==
  /\ ~heap.bad
  /\ \E m \in Held, name \in {NameC, NameI} :
       HeapStep(ippFindAttribute(heap, m, name, IPP_TAG_ZERO))

FindNext ==
  /\ ~heap.bad
  /\ \E m \in Held, name \in {NameC, NameI} :
       HeapStep(ippFindNextAttribute(heap, m, name, IPP_TAG_ZERO))

NextShare ==
  \/ New
  \/ HeapAddCollection
  \/ HeapAddCollectionTwice
  \/ DeleteAttribute
  \/ Delete

SpecShare == Init /\ [][NextShare]_vars

NextCursor ==
  \/ New
  \/ HeapAddInteger
  \/ HeapAddCollection
  \/ DeleteAttribute
  \/ Delete
  \/ Find
  \/ FindNext

SpecCursor == Init /\ [][NextCursor]_vars

RECURSIVE CountIn(_, _, _)
\* how often m is among the values from value k on
CountIn(values, m, k) ==
  IF k > Len(values) THEN 0
  ELSE (IF values[k] = m THEN 1 ELSE 0) + CountIn(values, m, k + 1)

RECURSIVE ValuesHolding(_, _)
\* the values of attributes not freed, from attribute a on, that hold m
ValuesHolding(m, a) ==
  IF a > Len(heap.attrs) THEN 0
  ELSE (IF /\ ~heap.attrs[a].freed
           /\ heap.attrs[a].value_tag = IPP_TAG_BEGIN_COLLECTION
        THEN CountIn(heap.attrs[a].values, m, 1) ELSE 0) +
       ValuesHolding(m, a + 1)

\* the holders of m: the application and the values of live attributes
Holders(m) == heap.held[m] + ValuesHolding(m, 1)

\* C12: a message starts with use count 1 and gains one per value that
\* refers to it, so the count of a live message is the number of its
\* holders; ippDelete frees the message and its attributes when the last
\* holder has released it and not before: a message a live value refers to
\* is not freed, no message is freed twice, no freed memory is used, and a
\* message without holders is freed.
ReferenceCounting ==
  /\ ~heap.bad
  /\ \A m \in 1..Len(heap.msgs) :
       /\ heap.frees[m] = IF heap.msgs[m].freed THEN 1 ELSE 0
       /\ ~heap.msgs[m].freed => heap.msgs[m].use = Holders(m)
       /\ heap.msgs[m].freed <=> Holders(m) = 0
  /\ \A a \in 1..Len(heap.attrs) :
       heap.msgs[heap.attrs[a].owner].freed => heap.attrs[a].freed

\* a message shared by two values of one parent and held by no one else
\* is alive after the application released it, and a message was freed
ReferenceCountingWitness ==
  /\ Len(heap.msgs) = 3
  /\ heap.held[2] = 0 /\ ~heap.msgs[2].freed /\ heap.msgs[2].use = 2
  /\ heap.msgs[3].freed
  /\ \E a \in 1..Len(heap.attrs) :
       ~heap.attrs[a].freed /\ heap.attrs[a].values = <<2, 2>>

\* a pointer of the message refers to an attribute that was freed
Dangling(a) == a # NULL /\ heap.attrs[a].freed

\* C13: after ippDeleteAttribute neither ipp->current nor ipp->prev of the
\* message refers to the attribute that was removed and freed.
CursorsFixed ==
  \A m \in 1..Len(heap.msgs) :
    ~heap.msgs[m].freed =>
      ~Dangling(heap.msgs[m].current) /\ ~Dangling(heap.msgs[m].prev)


(***************************************************************************)
(* The scratch buffers of nested calls.  ippReadIO and ippWriteIO take a   *)
(* buffer from the pool on entry, call themselves for every collection     *)
(* value with the buffer still held, and release it on the way out.        *)
(***************************************************************************)
\* the greatest number of a set of naturals, 0 for the empty set
Deepest(S) == IF S = {} THEN 0 ELSE CHOOSE d \in S : \A e \in S : e <= d

\* how deep the collections of message m are nested: 0 without a collection
RECURSIVE CollectionDepth(_)
CollectionDepth(m) ==
  Deepest(UNION {
    {1 + CollectionDepth(m.attrs[a].values[k].collection) :
       k \in {j \in 1..m.attrs[a].num_values :
                "collection" \in DOMAIN m.attrs[a].values[j]}} :
    a \in 1..Len(m.attrs)})

\* no buffer of the pool was ever held by two calls at once, and a buffer is
\* marked used exactly while a call holds it
HeldByOne ==
  \A k \in 1..Len(pool) :
    /\ pool[k].most <= 1
    /\ pool[k].used <=> pool[k].holders = 1

\* C14: ipp_buffer_get never returns a buffer whose used flag is set, so a
\* buffer of the pool is held by at most one call at a time; the call for a
\* nested collection holds another buffer than the calls around it, so that
\* a message written to its end has left as many buffers in the pool as
\* calls were nested for it.
BufferExclusive ==
  /\ HeldByOne
  /\ WriteComplete => Len(pool) >= 1 + CollectionDepth(ipp)

\* a message with a collection in a collection was written to its end
BufferExclusiveWitness ==
  /\ WriteComplete
  /\ CollectionDepth(ipp) >= 2
  /\ Len(pool) = 1 + CollectionDepth(ipp)
  /\ HeldByOne


(***************************************************************************)
(* Threads.  _cupsGlobals() returns the globals of the calling thread when *)
(* the library is built with HAVE_PTHREAD_H and the one static structure   *)
(* of the process when it is not.  cg.heads holds the ipp_buffers pointer  *)
(* of every globals structure and cg.bufs the buffers allocated, each with *)
(* its used flag and its next pointer (0: NULL).  A thread is inside       *)
(* ipp_buffer_get at the statement its pc names, its local variable buffer *)
(* in cursor, or outside of it ("idle") with the buffers it holds, the     *)
(* innermost call's last.  The loads and stores of ipp_buffer_get are      *)
(* steps of their own: the code takes no lock.                             *)
(***************************************************************************)
Threads == {1, 2}
Builds == {"pthread", "static"}

\* the most buffers allocated, and the most calls a thread nests
MaxBuffers == 3
MaxNest == 2

\* _cupsGlobals(): the globals structure thread t gets
Globals(t) == IF cg.build = "pthread" THEN t ELSE 1

\* thread t is at statement pc
At(t, pc) == cg # NoThreads /\ cg.threads[t].pc = pc

\* the threads inside ipp_buffer_get
InGet == {t \in Threads : cg.threads[t].pc # "idle"}

ThreadStep(c) ==
  /\ cg' = c
  /\ UNCHANGED <<ipp, dst, src, rsp, pool, log, heap>>

\* the process starts two threads; nothing was allocated
StartThreads ==
  /\ cg = NoThreads
  /\ \E build \in Builds :
       ThreadStep([build |-> build,
                   heads |-> IF build = "pthread" THEN <<0, 0>> ELSE <<0>>,
                   bufs |-> <<>>,
                   threads |-> [t \in Threads |->
                                  [pc |-> "idle", cursor |-> 0, held |-> <<>>]]])

\* a thread enters ippReadIO or ippWriteIO, at the top or for a collection:
\* buffer = cg->ipp_buffers
GetCall(t) ==
  /\ At(t, "idle")
  /\ Len(cg.threads[t].held) < MaxNest
  /\ Len(cg.bufs) + Cardinality(InGet) < MaxBuffers
  /\ ThreadStep([cg EXCEPT !.threads[t].pc = "scan",
                           !.threads[t].cursor = cg.heads[Globals(t)]])

\* for (...; buffer; buffer = buffer->next) if (!buffer->used)
Scan(t) ==
  /\ At(t, "scan")
  /\ LET b == cg.threads[t].cursor
     IN  ThreadStep(
           IF b = 0 THEN [cg EXCEPT !.threads[t].pc = "alloc"]
           ELSE IF ~cg.bufs[b].used THEN [cg EXCEPT !.threads[t].pc = "mark"]
           ELSE [cg EXCEPT !.threads[t].cursor = cg.bufs[b].next])

\* buffer->used = 1; return (buffer->d)
Mark(t) ==
  /\ At(t, "mark")
  /\ ThreadStep([cg EXCEPT !.bufs[cg.threads[t].cursor].used = TRUE,
                           !.threads[t].held = Append(@, cg.threads[t].cursor),
                           !.threads[t].pc = "idle"])

\* buffer = malloc(...); buffer->used = 1; buffer->next = cg->ipp_buffers
Alloc(t) ==
  /\ At(t, "alloc")
  /\ ThreadStep([cg EXCEPT !.bufs = Append(@, [used |-> TRUE,
                                               next |-> cg.heads[Globals(t)]]),
                           !.threads[t].cursor = Len(cg.bufs) + 1,
                           !.threads[t].pc = "link"])

\* cg->ipp_buffers = buffer; return (buffer->d)
Link(t) ==
  /\ At(t, "link")
  /\ ThreadStep([cg EXCEPT !.heads[Globals(t)] = cg.threads[t].cursor,
                           !.threads[t].held = Append(@, cg.threads[t].cursor),
                           !.threads[t].pc = "idle"])

\* the innermost call of the thread returns: ipp_buffer_release(buffer)
Release(t) ==
  /\ At(t, "idle")
  /\ cg.threads[t].held # <<>>
  /\ LET held == cg.threads[t].held
     IN  ThreadStep([cg EXCEPT !.bufs[held[Len(held)]].used = FALSE,
                               !.threads[t].held = SubSeq(held, 1, Len(held) - 1)])

NextThreads ==
  \/ StartThreads
  \/ \E t \in Threads : GetCall(t)
  \/ \E t \in Threads : Scan(t)
  \/ \E t \in Threads : Mark(t)
  \/ \E t \in Threads : Alloc(t)
  \/ \E t \in Threads : Link(t)
  \/ \E t \in Threads : Release(t)

SpecThreads == Init /\ [][NextThreads]_vars

\* the buffers on the list that starts at buffer b, over at most n links
RECURSIVE OnList(_, _)
OnList(b, n) ==
  IF b = 0 \/ n = 0 THEN {} ELSE {b} \cup OnList(cg.bufs[b].next, n - 1)

\* the calls of thread t that hold buffer b
Holding(t, b) == {k \in 1..Len(cg.threads[t].held) : cg.threads[t].held[k] = b}

\* C15: two threads that run ippReadIO or ippWriteIO on different messages
\* never hold the same scratch buffer at once, whatever the interleaving of
\* ipp_buffer_get and ipp_buffer_release, and the list of the pool is never
\* corrupted: every buffer a call holds is on the list of its thread's pool.
SafeCheckout ==
  cg # NoThreads =>
    \A t \in Threads : \A k \in 1..Len(cg.threads[t].held) :
      LET b == cg.threads[t].held[k]
      IN  /\ \A u \in Threads \ {t} : Holding(u, b) = {}
          /\ Holding(t, b) = {k}
          /\ b \in OnList(cg.heads[Globals(t)], Len(cg.bufs))

\* the same, for the library built with HAVE_PTHREAD_H only
SafeCheckoutPerThread == cg.build = "pthread" => SafeCheckout


(***************************************************************************)
(* A sink that fails.  The application writes a message to a sink whose    *)
(* write() returns -1 at one call, or takes all bytes but the last at one  *)
(* call; among the messages is one with an attribute of two strings that   *)
(* do not fit the scratch buffer together.                                 *)
(***************************************************************************)
\* the length of a long string, and the last sink call that may fail
LargeLen == 20000
MaxFail == 9

LargeText == [k \in 1..LargeLen |-> 97]
LargeName == <<108>>

\* ippAddStrings(ipp, IPP_TAG_JOB, IPP_TAG_TEXT, "l", NULL, values) with two
\* long strings
AddLargeStrings ==
  /\ Building
  /\ \A a \in 1..Len(ipp.attrs) : ipp.attrs[a].name # LargeName
  /\ Built(ippAddStrings(ipp, IPP_TAG_JOB, IPP_TAG_TEXT, LargeName, NULLSTR,
                         <<LargeText, LargeText>>))

\* nothing was written yet to the sink of a message that was built
SinkUntouched == dst = EmptySink /\ log.wcalls = 0 /\ log.calls >= 1

\* the k-th write() of the sink will return -1
FailSink ==
  /\ SinkUntouched
  /\ \E k \in 1..MaxFail : dst' = [dst EXCEPT !.failAt = k]
  /\ UNCHANGED <<ipp, src, rsp, pool, log, heap, cg>>

\* the k-th write() of the sink will take all bytes but one
ShortSink ==
  /\ SinkUntouched
  /\ \E k \in 1..MaxFail : dst' = [dst EXCEPT !.shortAt = k]
  /\ UNCHANGED <<ipp, src, rsp, pool, log, heap, cg>>

NextSink ==
  \/ Prepare
  \/ FailSink
  \/ ShortSink
  \/ Write
  \/ Transfer
  \/ Read

SpecSink == Init /\ [][NextSink]_vars

\* the messages with long strings are written and not read
NextFlush ==
  \/ Prepare
  \/ AddLargeStrings
  \/ FailSink
  \/ Write

SpecFlush == Init /\ [][NextFlush]_vars


\* every buffer of the pool is free
AllReleased ==
  \A k \in 1..Len(pool) : ~pool[k].used /\ pool[k].holders = 0

\* the buffers of the pool, by their identities
PoolBuffers(p) == {p[k].id : k \in 1..Len(p)}

\* C16: a call of ippReadIO or ippWriteIO has released its scratch buffer
\* when it returns, whether it completed, suspended or failed, so that
\* between the top-level calls every buffer of the pool is free; the pool
\* never gives up a buffer, and it holds no more buffers than calls were
\* nested at once: one for the top-level call and one for every level of
\* collections of the message.
PoolReleased ==
  /\ [](AllReleased /\ Len(pool) <= 1 + CollectionDepth(ipp))
  /\ [][PoolBuffers(pool) \subseteq PoolBuffers(pool')]_vars

\* a call with nested calls returned IPP_ERROR and left every buffer free
PoolReleasedWitness ==
  /\ log.ret = IPP_ERROR
  /\ Len(pool) >= 2
  /\ AllReleased


(***************************************************************************)
(* What a failed read leaves.  The stream that was written is dst.taken;   *)
(* the reader got it cut or with one entry changed.                        *)
(***************************************************************************)
\* the offset the reader cannot get past: the end of a cut stream, or the
\* start of the entry that was changed
FailPoint == log.fault.at

\* where the entry at offset p ends
EntryEnd(bytes, p) ==
  p + 3 + Get16(bytes, p + 2) + 2 + Get16(bytes, p + 3 + Get16(bytes, p + 2) + 1)

\* the entries of the stream that complete a value of a top-level attribute:
\* an entry outside of every collection that does not begin one, or the
\* entry that ends a collection which is such a value
ValueEnds(bytes) ==
  {e \in EntryOffsets(bytes, 8, 0) :
     \/ e.depth = 0 /\ bytes[e.at + 1] # IPP_TAG_BEGIN_COLLECTION
     \/ e.depth = 1 /\ bytes[e.at + 1] = IPP_TAG_END_COLLECTION}

\* how many values of top-level attributes the stream holds in its first f
\* bytes
CompleteBefore(bytes, f) ==
  Cardinality({e \in ValueEnds(bytes) : EntryEnd(bytes, e.at) <= f})

\* the values of the top-level attributes of a message from attribute a on,
\* in list order, each with the name, the group tag and the value tag of
\* its attribute and its place among the values
RECURSIVE ValuesInOrder(_, _)
ValuesInOrder(m, a) ==
  IF a > Len(m.attrs) THEN <<>>
  ELSE [k \in 1..m.attrs[a].num_values |->
          [name |-> m.attrs[a].name, group_tag |-> m.attrs[a].group_tag,
           value_tag |-> m.attrs[a].value_tag, place |-> k,
           value |-> MemberValue(m.attrs[a].values[k])]] \o
       ValuesInOrder(m, a + 1)

\* ippReadIO returned IPP_ERROR on a stream that was cut or changed
ReadFailed ==
  /\ log.rcalls >= 1
  /\ log.ret = IPP_ERROR
  /\ log.fault # NoFault

SameHeader(m1, m2) ==
  /\ m1.version = m2.version
  /\ m1.op_status = m2.op_status
  /\ m1.request_id = m2.request_id

\* the first n values of the message written are the first n values of the
\* message read
FirstValuesKept(n) ==
  /\ Len(ValuesInOrder(rsp, 1)) >= n
  /\ Prefix(ValuesInOrder(rsp, 1), n) = Prefix(ValuesInOrder(ipp, 1), n)

\* C17: when ippReadIO returns IPP_ERROR nothing is rolled back: the header
\* fields that were read and every value of every attribute that was
\* decoded to its end before the entry that failed are attached to the
\* message, as they were written and in their order.
NoRollback ==
  ReadFailed =>
    /\ FailPoint >= 8 => SameHeader(rsp, ipp)
    /\ FirstValuesKept(CompleteBefore(dst.taken, FailPoint))

\* a stream cut after its third value was read to the cut, the message left
\* with three values
NoRollbackWitness ==
  /\ ReadFailed
  /\ log.fault.kind = "trunc"
  /\ CompleteBefore(dst.taken, FailPoint) = 3
  /\ Len(ValuesInOrder(rsp, 1)) = 3
  /\ Len(rsp.attrs) >= 2


(***************************************************************************)
(* Where a failed write leaves the message.  The sink has taken the bytes  *)
(* of dst.taken when its write() returns -1; the attribute in flight is    *)
(* the one whose bytes on the wire begin at or before that offset and end  *)
(* after it.                                                               *)
(***************************************************************************)
\* the offset on the wire where attribute a of message m ends: the length
\* of the message of the first a attributes without its end tag
AttrEnd(m, a) == Len(Encoded([m EXCEPT !.attrs = Prefix(@, a)])) - 1

\* the attribute of m whose bytes are being written at offset p
InFlightAt(m, p) ==
  CHOOSE a \in 1..Len(m.attrs) : AttrEnd(m, a - 1) <= p /\ p < AttrEnd(m, a)

\* the sink reported an error while an attribute was being written
SinkFailedInAttribute ==
  /\ dst.failed
  /\ log.ret = IPP_ERROR
  /\ Len(dst.taken) >= 8
  /\ Len(dst.taken) < AttrEnd(ipp, Len(ipp.attrs))

\* C18 as stated: a sink error while attribute A is written leaves the
\* message in state IPP_ATTRIBUTE with its cursor on A.
SinkErrorKeepsCursor ==
  SinkFailedInAttribute =>
    /\ ipp.state = IPP_ATTRIBUTE
    /\ ipp.current = InFlightAt(ipp, Len(dst.taken))

\* C18: a sink error while attribute A is written makes ippWriteIO return
\* IPP_ERROR and leaves the message in state IPP_ATTRIBUTE with its cursor
\* on the successor of A, NULL when A is the last attribute, and with the
\* group tag of A as the current group: the cursor is advanced before the
\* first byte of A is put into the buffer.
SinkErrorSkipsAttribute ==
  SinkFailedInAttribute =>
    /\ ipp.state = IPP_ATTRIBUTE
    /\ ipp.current = NextAttr(ipp, InFlightAt(ipp, Len(dst.taken)))
    /\ ipp.curtag = ipp.attrs[InFlightAt(ipp, Len(dst.taken))].group_tag

\* the sink failed while the first of two attributes was written
SinkErrorWitness ==
  /\ SinkFailedInAttribute
  /\ Len(ipp.attrs) = 2
  /\ InFlightAt(ipp, Len(dst.taken)) = 1
  /\ ipp.current = 2


\* a write() of the sink took fewer bytes than it was handed, and the
\* ippWriteIO call that handed them has returned
ShortWritten == dst.short /\ src = EmptySource /\ log.wcalls >= 1

\* C19: a short write is a failure: when the sink callback returns a count
\* that is not negative and smaller than the number of bytes it was asked
\* to write, ippWriteIO returns IPP_ERROR and does not go on as if the bytes
\* were written.
ShortWriteFails ==
  ShortWritten => log.ret = IPP_ERROR /\ ipp.state # IPP_DATA


(***************************************************************************)
(* The fields of the wire format: the header of 8 bytes, a delimiter tag   *)
(* (a group tag or the end tag), the value tag of an entry with its name   *)
(* length and name, and the value length of an entry with its value.       *)
(***************************************************************************)
\* the offsets where the fields of an entry end whose name ends at offset
\* q, and of the items after it; rest is what follows the entry
EntryFieldEnds(bytes, q, rest) ==
  IF q + 2 > Len(bytes) \/ q + 2 + Get16(bytes, q + 1) > Len(bytes) THEN {q}
  ELSE {q, q + 2 + Get16(bytes, q + 1)} \cup rest

\* the offsets where the fields that lie whole in the stream end, from the
\* field that starts at offset p on
RECURSIVE FieldEnds(_, _)
FieldEnds(bytes, p) ==
  IF p >= Len(bytes) THEN {}
  ELSE IF p = 0
  THEN IF Len(bytes) < 8 THEN {} ELSE {8} \cup FieldEnds(bytes, 8)
  ELSE IF bytes[p + 1] < IPP_TAG_UNSUPPORTED_VALUE
  THEN {p + 1} \cup FieldEnds(bytes, p + 1)
  ELSE IF p + 3 > Len(bytes) \/ p + 3 + Get16(bytes, p + 2) > Len(bytes)
  THEN {}
  ELSE EntryFieldEnds(bytes, p + 3 + Get16(bytes, p + 2),
                      IF p + 5 + Get16(bytes, p + 2) > Len(bytes) THEN {}
                      ELSE FieldEnds(bytes, EntryEnd(bytes, p)))

\* every buffer handed to the sink ends where a field of the stream ends
EndsOnFields(chunks, ends) ==
  \A n \in 1..Len(chunks) : Len(Concat(Prefix(chunks, n))) \in ends

\* C20: ippWriteIO flushes on field boundaries only: every buffer it hands
\* to the sink holds whole fields (group tag; value tag, name length and
\* name; value length and value; end marker) and no field lies in two
\* buffers, also when the call ends in IPP_ERROR.
WholeFields ==
  log.wcalls >= 1 =>
    /\ \A n \in 1..Len(dst.chunks) : dst.chunks[n] # <<>>
    /\ EndsOnFields(dst.chunks, FieldEnds(Concat(dst.chunks), 0))

\* an attribute of two long strings went to the sink in two buffers, one
\* string in each
WholeFieldsWitness ==
  /\ ipp.state = IPP_DATA
  /\ \E n \in 1..(Len(dst.chunks) - 1) :
       /\ Len(dst.chunks[n]) > LargeLen
       /\ Len(dst.chunks[n + 1]) > LargeLen
       /\ Len(dst.chunks[n]) + Len(dst.chunks[n + 1]) > IPP_BUF_SIZE


(***************************************************************************)
(* Calls after the end.  The application calls ippReadIO again on a        *)
(* message that is in state IPP_DATA.                                      *)
(***************************************************************************)
\* the most ippReadIO calls on one message
MaxReads == 8

ReadAgain ==
  /\ src # EmptySource
  /\ rsp.state = IPP_DATA
  /\ log.rcalls < MaxReads
  /\ \E blocking \in BOOLEAN, moves \in BOOLEAN :
       HasRead(blocking, ippReadIO(src, pool, blocking, FALSE, rsp,
                                   [junk |-> 170, moves |-> moves]))

NextProgress ==
  \/ Prepare
  \/ Write
  \/ Transfer
  \/ Truncate
  \/ Oversize
  \/ Retag
  \/ Trickle
  \/ Read
  \/ ReadAgain

SpecProgress == Init /\ [][NextProgress]_vars

\* the states in the order the decoder goes through them
StateOrder == <<IPP_IDLE, IPP_HEADER, IPP_ATTRIBUTE, IPP_DATA>>
StateRank(s) == CHOOSE k \in 1..Len(StateOrder) : StateOrder[k] = s

\* a step of one or more ippReadIO calls on rsp
ReadStep == log'.rcalls > log.rcalls

\* C21: over the ippReadIO calls on one message the state moves forward
\* only, IPP_IDLE, IPP_HEADER, IPP_ATTRIBUTE, IPP_DATA; a call on a message
\* in state IPP_DATA does not call the source, leaves the message as it is
\* and returns IPP_DATA.
StateForward ==
  [][ReadStep =>
       /\ rsp.state \in {IPP_IDLE, IPP_HEADER, IPP_ATTRIBUTE, IPP_DATA}
       /\ StateRank(rsp'.state) >= StateRank(rsp.state)
       /\ rsp.state = IPP_DATA =>
            /\ rsp' = rsp
            /\ src' = src
            /\ log'.ret = IPP_DATA]_vars

\* a message read to its end by three calls was read again twice
StateForwardWitness ==
  /\ rsp.state = IPP_DATA
  /\ log.ret = IPP_DATA
  /\ log.rcalls >= 5
  /\ log.rnb = 3
  /\ src.pos = Len(src.data)
  /\ ~src.short


(***************************************************************************)
(* Streams from a peer.  The peer sends a header and then items of its own *)
(* making, one after the other, before the application reads: delimiter    *)
(* tags and entries, well-formed or not.                                   *)
(***************************************************************************)
\* the most items of a stream
MaxItems == 5

\* the header of a response: version 2.0, status 2, request id 1
WireHeader == <<2, 0, 0, 2, 0, 0, 0, 1>>

\* the entry on the wire: tag, name length, name, value length, value
WireEntry(tag, name, length, value) ==
  <<tag>> \o Put16(Len(name)) \o name \o Put16(length) \o value

\* the header arrives
Open ==
  /\ src = EmptySource /\ log.calls = 0 /\ log.wcalls = 0
  /\ src' = [EmptySource EXCEPT !.data = WireHeader]
  /\ log' = [log EXCEPT !.calls = 1]
  /\ UNCHANGED <<ipp, dst, rsp, pool, heap, cg>>

\* the stream of a peer that may send more, nothing of it read yet
Feeding ==
  /\ src # EmptySource /\ log.rcalls = 0 /\ log.wcalls = 0
  /\ log.calls >= 1 /\ log.calls <= MaxItems

\* the bytes of one more item arrive
Fed(bytes) ==
  /\ src' = [src EXCEPT !.data = @ \o bytes]
  /\ log' = [log EXCEPT !.calls = @ + 1]
  /\ UNCHANGED <<ipp, dst, rsp, pool, heap, cg>>

\* a group tag, the zero tag among them
FeedGroup ==
  /\ Feeding
  /\ \E tag \in {IPP_TAG_ZERO, IPP_TAG_OPERATION, IPP_TAG_JOB} : Fed(<<tag>>)

FeedEnd == Feeding /\ Fed(<<IPP_TAG_END>>)

\* the integer attribute "i" with the value 7
FeedInteger ==
  Feeding /\ Fed(WireEntry(IPP_TAG_INTEGER, <<105>>, 4, <<0, 0, 0, 7>>))

\* the application writes the message it has read to its end
Reencode ==
  /\ rsp.state = IPP_DATA /\ log.ret = IPP_DATA
  /\ dst = EmptySink
  /\ Wrote(TRUE, ippWriteFile(dst, pool, rsp))

NextGroups ==
  \/ Open
  \/ FeedGroup
  \/ FeedEnd
  \/ FeedInteger
  \/ Read
  \/ Reencode

SpecGroups == Init /\ [][NextGroups]_vars

\* the items of the stream the reader has consumed
ItemsRead == WireItems(SubSeq(src.data, 1, src.pos), 8)

Separator ==
  [name |-> NULLSTR, group_tag |-> IPP_TAG_ZERO, value_tag |-> IPP_TAG_ZERO,
   num_values |-> 0]

\* name, group tag, value tag and number of values of every attribute the
\* items from item k on stand for when the group before them is cur: each
\* named entry is an attribute of one value
RECURSIVE GroupWalk(_, _, _)
GroupWalk(items, k, cur) ==
  IF k > Len(items) THEN <<>>
  ELSE IF items[k].delim
  THEN IF items[k].tag = IPP_TAG_END THEN <<>>
       ELSE IF items[k].tag = cur
       THEN <<Separator>> \o GroupWalk(items, k + 1, cur)
       ELSE GroupWalk(items, k + 1, items[k].tag)
  ELSE <<[name |-> items[k].name, group_tag |-> cur,
          value_tag |-> items[k].tag, num_values |-> 1]>> \o
       GroupWalk(items, k + 1, cur)

AttributeList(m) ==
  [a \in 1..Len(m.attrs) |->
     [name |-> m.attrs[a].name, group_tag |-> m.attrs[a].group_tag,
      value_tag |-> m.attrs[a].value_tag, num_values |-> m.attrs[a].num_values]]

\* C22: a group tag read by ippReadIO makes no named attribute; when it is
\* the current group it appends one separator (no name, no value, group and
\* value tag zero), otherwise it only becomes the current group; every
\* attribute made after it has the group tag read last, zero when none was.
GroupsDecoded ==
  log.rcalls >= 1 => AttributeList(rsp) = GroupWalk(ItemsRead, 1, IPP_TAG_ZERO)

\* job, attribute, job, attribute, end: a separator between two attributes
\* of the job group
GroupsDecodedWitness ==
  /\ rsp.state = IPP_DATA
  /\ src.data = WireHeader \o <<IPP_TAG_JOB>> \o
                WireEntry(IPP_TAG_INTEGER, <<105>>, 4, <<0, 0, 0, 7>>) \o
                <<IPP_TAG_JOB>> \o
                WireEntry(IPP_TAG_INTEGER, <<105>>, 4, <<0, 0, 0, 7>>) \o
                <<IPP_TAG_END>>
  /\ Len(rsp.attrs) = 3
  /\ AttributeList(rsp)[2] = Separator
  /\ rsp.attrs[3].group_tag = IPP_TAG_JOB


\* the attribute "c" with one collection, its member "m" the integer 7
FeedCollection ==
  Feeding /\
  Fed(WireEntry(IPP_TAG_BEGIN_COLLECTION, <<99>>, 0, <<>>) \o
      WireEntry(IPP_TAG_MEMBERNAME, <<>>, 1, <<109>>) \o
      WireEntry(IPP_TAG_INTEGER, <<>>, 4, <<0, 0, 0, 7>>) \o
      WireEntry(IPP_TAG_END_COLLECTION, <<>>, 0, <<>>))

NextReencode ==
  \/ Open
  \/ FeedGroup
  \/ FeedEnd
  \/ FeedInteger
  \/ FeedCollection
  \/ Read
  \/ Reencode

SpecReencode == Init /\ [][NextReencode]_vars

\* the message read was written again
Reencoded == log.wcalls >= 1 /\ ipp.state = IPP_DATA

\* the items the attributes of m from attribute a on are written as when
\* the group recorded before them is cur: a group tag before an attribute of
\* another group that is not zero, nothing for an attribute of group zero,
\* no group tag inside a collection
RECURSIVE GroupedItems(_, _, _)
GroupedItems(m, a, cur) ==
  IF a > Len(m.attrs) THEN <<Delimiter(IPP_TAG_END)>>
  ELSE (IF m.attrs[a].group_tag = IPP_TAG_ZERO THEN <<>>
        ELSE (IF m.attrs[a].group_tag # cur
              THEN <<Delimiter(m.attrs[a].group_tag)>> ELSE <<>>) \o
             ValuesEntries(m.attrs[a], m.attrs[a].name, 1)) \o
       GroupedItems(m, a + 1, m.attrs[a].group_tag)

\* a group tag of the items from item k on is the group tag before it
RECURSIVE GroupRepeated(_, _, _)
GroupRepeated(items, k, cur) ==
  /\ k <= Len(items)
  /\ IF items[k].delim
     THEN \/ items[k].tag = cur /\ cur # IPP_TAG_ZERO
          \/ GroupRepeated(items, k + 1, items[k].tag)
     ELSE GroupRepeated(items, k + 1, cur)

\* the stream begins with a group tag, every group tag is not zero and has
\* an entry after it, and the end tag is the last item
GroupsBeforeEntries(items) ==
  /\ Len(items) >= 1
  /\ items[Len(items)] = Delimiter(IPP_TAG_END)
  /\ Len(items) > 1 => items[1].delim
  /\ \A k \in 1..(Len(items) - 1) :
       items[k].delim =>
         /\ items[k].tag \notin {IPP_TAG_ZERO, IPP_TAG_END}
         /\ ~items[k + 1].delim

\* the stream written is the stream that was read
Reproduced == dst.taken = SubSeq(src.data, 1, src.pos)

MaxMore == 2

\* the tags of the entries the peer sends
ValueTags ==
  {IPP_TAG_INTEGER, IPP_TAG_ENUM, IPP_TAG_BOOLEAN, IPP_TAG_KEYWORD,
   IPP_TAG_NAME, IPP_TAG_TEXTLANG, IPP_TAG_NOVALUE, IPP_TAG_STRING}

\* a value of the right form for the tag
WireValue(tag) ==
  CASE tag \in {IPP_TAG_INTEGER, IPP_TAG_ENUM} -> <<0, 0, 0, 7>>
    [] tag = IPP_TAG_BOOLEAN -> <<1>>
    [] tag \in {IPP_TAG_KEYWORD, IPP_TAG_NAME} -> <<97>>
    [] tag = IPP_TAG_TEXTLANG -> <<0, 2, 101, 110, 0, 1, 120>>
    [] tag = IPP_TAG_NOVALUE -> <<>>
    [] OTHER -> <<1, 2>>

\* the attribute "a" with its first value
FeedNamed ==
  /\ Feeding /\ log.calls = 1
  /\ \E tag \in ValueTags :
       Fed(WireEntry(tag, <<97>>, Len(WireValue(tag)), WireValue(tag)))

\* the collection "c" begins, and the name of its member "m" arrives
FeedMember ==
  /\ Feeding /\ log.calls = 1
  /\ Fed(WireEntry(IPP_TAG_BEGIN_COLLECTION, <<99>>, 0, <<>>) \o
         WireEntry(IPP_TAG_MEMBERNAME, <<>>, 1, <<109>>))

\* an entry without a name
FeedMore ==
  /\ Feeding /\ log.calls >= 2 /\ log.calls <= MaxMore + 1
  /\ \E tag \in ValueTags :
       Fed(WireEntry(tag, <<>>, Len(WireValue(tag)), WireValue(tag)))

\* the end tag after the values of a top-level attribute
FeedEndOfAttribute ==
  /\ Feeding /\ log.calls >= 2
  /\ src.data[9] # IPP_TAG_BEGIN_COLLECTION
  /\ Fed(<<IPP_TAG_END>>)

NextValues ==
  \/ Open
  \/ FeedNamed
  \/ FeedMember
  \/ FeedMore
  \/ FeedEndOfAttribute
  \/ Read

SpecValues == Init /\ [][NextValues]_vars

\* text and name with language and the tags from text to mimeType
StringLike(tag) ==
  \/ tag \in {IPP_TAG_TEXTLANG, IPP_TAG_NAMELANG}
  \/ tag \in IPP_TAG_TEXT..IPP_TAG_MIMETYPE

\* an entry without a name and with this tag is taken as a value of an
\* attribute whose value tag is vt
Accepted(vt, tag) ==
  \/ vt = IPP_TAG_ZERO
  \/ StringLike(vt) /\ (StringLike(tag) \/ tag = IPP_TAG_NOVALUE)
  \/ vt = tag

\* the attribute the items from item k on leave, at is what the items
\* before them made of it: its value tag, the number of its values, and
\* whether an entry was refused.  A refused entry stops the reader before
\* the length of its value; a reader that nothing stops runs into the end
\* of a stream without end tag.
RECURSIVE TagWalk(_, _, _)
TagWalk(items, k, at) ==
  IF k > Len(items) \/ items[k].delim THEN at
  ELSE IF items[k].tag = IPP_TAG_MEMBERNAME
  THEN TagWalk(items, k + 1,
               [value_tag |-> IPP_TAG_ZERO, num_values |-> 0, refused |-> FALSE])
  ELSE IF items[k].name # <<>> \/ items[k].tag = IPP_TAG_BEGIN_COLLECTION
  THEN TagWalk(items, k + 1,
               [value_tag |-> items[k].tag, num_values |-> 1, refused |-> FALSE])
  ELSE IF Accepted(at.value_tag, items[k].tag)
  THEN TagWalk(items, k + 1,
               [value_tag |-> IF at.value_tag = IPP_TAG_ZERO THEN items[k].tag
                              ELSE at.value_tag,
                num_values |-> at.num_values + 1, refused |-> FALSE])
  ELSE [at EXCEPT !.refused = TRUE]

\* the attribute the entries without a name are values of: the one
\* attribute of the message, or the one member of its collection
LastAttribute(m) ==
  IF m.attrs[1].value_tag = IPP_TAG_BEGIN_COLLECTION
  THEN m.attrs[1].values[1].collection.attrs[1]
  ELSE m.attrs[1]

\* the reader has come to the end tag, to the end of the stream or to an
\* entry it refused
ReadOver == log.rcalls >= 1 /\ log.ret \in {IPP_ERROR, IPP_DATA}

\* the stream holds an attribute or the name of a member
HasAttribute == Len(src.data) > 9

TagRule(at) ==
  /\ LastAttribute(rsp).value_tag = at.value_tag
  /\ LastAttribute(rsp).num_values = at.num_values
  /\ at.refused =>
       /\ log.ret = IPP_ERROR
       /\ src.pos < Len(src.data)
       /\ ~src.short
  /\ ~at.refused => log.ret = IPP_DATA \/ src.short

\* C24: an entry without a name is taken as a further value of the current
\* attribute only if the attribute's value tag is still zero (a member of
\* a collection before its first value), which then becomes the entry's
\* tag, or the attribute's tag is a string tag and the entry's tag is a
\* string tag or no-value, the attribute's tag staying as it is, or the
\* two tags are the same; in every other case ippReadIO returns IPP_ERROR.
FurtherValueTags ==
  (ReadOver /\ HasAttribute) =>
    TagRule(TagWalk(WireItems(src.data, 8), 1,
                    [value_tag |-> IPP_TAG_ZERO, num_values |-> 0,
                     refused |-> FALSE]))

\* a keyword attribute took a text with language and a no-value entry
FurtherValueTagsWitness ==
  /\ ReadOver /\ HasAttribute
  /\ log.ret = IPP_DATA
  /\ rsp.attrs[1].value_tag = IPP_TAG_KEYWORD
  /\ rsp.attrs[1].num_values = 3
  /\ src.data[16] = IPP_TAG_TEXTLANG
  /\ src.data[28] = IPP_TAG_NOVALUE


\* ---------------------------------------------------------------------
\* Declared value lengths: the attribute "a" arrives with a value length
\* and as many payload bytes as it declares
\* ---------------------------------------------------------------------

SizedTags ==
  {IPP_TAG_INTEGER, IPP_TAG_ENUM, IPP_TAG_BOOLEAN, IPP_TAG_DATE,
   IPP_TAG_RESOLUTION, IPP_TAG_RANGE, IPP_TAG_KEYWORD, IPP_TAG_TEXT}

\* the value lengths a peer declares: those around the fixed sizes, and for
\* the strings those around the size of the scratch buffer
SizedLengths(tag) ==
  {0, 1, 2, 4, 5, 8, 9, 10, 11, 12} \cup
  IF tag \in {IPP_TAG_KEYWORD, IPP_TAG_TEXT, IPP_TAG_INTEGER}
  THEN {IPP_BUF_SIZE - 1, IPP_BUF_SIZE, IPP_BUF_SIZE + 1}
  ELSE {}

\* n payload bytes: the letter a and zeros
ValueBytes(n) == [k \in 1..n |-> IF k = 1 THEN 97 ELSE 0]

FeedSized ==
  /\ Feeding /\ log.calls = 1
  /\ \E tag \in SizedTags :
       \E n \in SizedLengths(tag) : Fed(WireEntry(tag, <<97>>, n, ValueBytes(n)))

\* the integer attribute "i" or the end tag after the attribute "a"
FeedAfter ==
  /\ Feeding /\ log.calls >= 2
  /\ \E bytes \in {WireEntry(IPP_TAG_INTEGER, <<105>>, 4, <<0, 0, 0, 7>>),
                   <<IPP_TAG_END>>} : Fed(bytes)

NextLengths ==
  \/ Open
  \/ FeedSized
  \/ FeedAfter
  \/ Read

SpecLengths == Init /\ [][NextLengths]_vars

\* the value length the attribute "a" declares, and where its payload ends
DeclaredLength == Get16(src.data, 13)
PayloadEnd == 14 + DeclaredLength

\* the size a value of this tag has, zero for a tag of no fixed size
FixedSize(tag) ==
  CASE tag \in {IPP_TAG_INTEGER, IPP_TAG_ENUM} -> 4
    [] tag = IPP_TAG_BOOLEAN -> 1
    [] tag = IPP_TAG_DATE -> 11
    [] tag = IPP_TAG_RESOLUTION -> 9
    [] tag = IPP_TAG_RANGE -> 8
    [] OTHER -> 0

\* the declared length is one the reader refuses
Refused(tag, n) ==
  IF FixedSize(tag) > 0 THEN n # FixedSize(tag) ELSE n >= IPP_BUF_SIZE

\* the offset of the end tag among the items from offset p on, or the end
\* of the stream, and the number of attributes "i" before it
RECURSIVE EndFrom(_)
EndFrom(p) ==
  IF p >= Len(src.data) THEN Len(src.data)
  ELSE IF src.data[p + 1] = IPP_TAG_END THEN p + 1
  ELSE EndFrom(p + 10)

RECURSIVE IntegersFrom(_)
IntegersFrom(p) ==
  IF p >= Len(src.data) \/ src.data[p + 1] = IPP_TAG_END THEN 0
  ELSE 1 + IntegersFrom(p + 10)

\* C25: ippReadIO returns IPP_ERROR, with the value length the last bytes
\* it took, unless the declared length of a value is 4 for an integer or an
\* enum, 1 for a boolean, 11 for a date, 9 for a resolution, 8 for a range
\* and less than the scratch buffer's size for a string; otherwise the
\* value is stored and exactly the declared payload bytes are consumed, so
\* that every attribute after it is read as it was sent.
DeclaredLengths ==
  ReadOver /\ Len(src.data) > 9 =>
    IF Refused(src.data[9], DeclaredLength)
    THEN /\ log.ret = IPP_ERROR
         /\ src.pos = 14
         /\ Len(rsp.attrs) = 1
         /\ rsp.attrs[1].num_values = 0
    ELSE /\ rsp.attrs[1].num_values = 1
         /\ Len(rsp.attrs) = 1 + IntegersFrom(PayloadEnd)
         /\ \A a \in 2..Len(rsp.attrs) :
              /\ rsp.attrs[a].name = <<105>>
              /\ rsp.attrs[a].num_values = 1
              /\ rsp.attrs[a].values[1] = [integer |-> 7]
         /\ src.pos = EndFrom(PayloadEnd)
         /\ log.ret = IPP_DATA <=> src.pos < Len(src.data) \/ ~src.short

\* a keyword of the largest length accepted was read with the attribute
\* after it, and a date of 11 bytes
DeclaredLengthsWitness ==
  /\ ReadOver /\ Len(src.data) > 9
  /\ log.ret = IPP_DATA
  /\ src.data[9] = IPP_TAG_KEYWORD
  /\ DeclaredLength = IPP_BUF_SIZE - 1
  /\ Len(rsp.attrs) = 2
  /\ src.pos = PayloadEnd + 11


\* ---------------------------------------------------------------------
\* The markers of a collection: the attribute "c" begins a collection of
\* one member "m", every marker with a length a peer may get wrong
\* ---------------------------------------------------------------------

\* the lengths a marker declares where it should declare none
MarkerLengths == {0, 1, 2}

Bytes(n) == [k \in 1..n |-> 120]

\* begin-collection with a value of n bytes
FeedBegin ==
  /\ Feeding /\ log.calls = 1
  /\ \E n \in MarkerLengths :
       Fed(WireEntry(IPP_TAG_BEGIN_COLLECTION, <<99>>, n, Bytes(n)))

\* the member name "m" in an entry with a name of n bytes
FeedMemberName ==
  /\ Feeding /\ log.calls = 2
  /\ \E n \in MarkerLengths : Fed(WireEntry(IPP_TAG_MEMBERNAME, Bytes(n), 1, <<109>>))

\* the member's value, the integer 7
FeedMemberValue ==
  /\ Feeding /\ log.calls = 3
  /\ Fed(WireEntry(IPP_TAG_INTEGER, <<>>, 4, <<0, 0, 0, 7>>))

\* end-collection with a value of n bytes
FeedEndCollection ==
  /\ Feeding /\ log.calls = 4
  /\ \E n \in MarkerLengths : Fed(WireEntry(IPP_TAG_END_COLLECTION, <<>>, n, Bytes(n)))

FeedEndOfMessage == Feeding /\ log.calls = 5 /\ Fed(<<IPP_TAG_END>>)

NextMarkers ==
  \/ Open
  \/ FeedBegin
  \/ FeedMemberName
  \/ FeedMemberValue
  \/ FeedEndCollection
  \/ FeedEndOfMessage
  \/ Read

SpecMarkers == Init /\ [][NextMarkers]_vars

\* the offsets before the entries of the stream, and the lengths its
\* markers declare (zero where the stream has not got that far)
Have(p) == Len(src.data) > p
BeginLength == IF Have(13) THEN Get16(src.data, 13) ELSE 0
MemberAt == 14 + BeginLength
MemberNameLength == IF Have(MemberAt + 2) THEN Get16(src.data, MemberAt + 2) ELSE 0
ValueAt == MemberAt + 6 + MemberNameLength
EndCollectionAt == ValueAt + 9
EndLength ==
  IF Have(EndCollectionAt + 4) THEN Get16(src.data, EndCollectionAt + 4) ELSE 0
EndAt == EndCollectionAt + 5 + EndLength

\* C26: ippReadIO returns IPP_ERROR for a begin-collection entry whose
\* value length is not zero, for a member-name entry whose name length is
\* not zero and for an end-collection entry whose value length is not zero,
\* each time with that length as the last bytes taken from the source; a
\* collection whose markers all declare zero is read with its member.
MarkersChecked ==
  ReadOver /\ Have(13) =>
    IF BeginLength # 0
    THEN log.ret = IPP_ERROR /\ src.pos = 14
    ELSE IF Have(MemberAt + 2) /\ MemberNameLength # 0
    THEN log.ret = IPP_ERROR /\ src.pos = MemberAt + 3
    ELSE IF Have(EndCollectionAt + 4) /\ EndLength # 0
    THEN log.ret = IPP_ERROR /\ src.pos = EndCollectionAt + 5
    ELSE /\ src.pos = Len(src.data)
         /\ log.ret = IPP_DATA <=> Have(EndAt)
         /\ Have(EndAt) =>
              /\ Len(rsp.attrs) = 1
              /\ rsp.attrs[1].num_values = 1
              /\ Len(rsp.attrs[1].values[1].collection.attrs) = 1
              /\ rsp.attrs[1].values[1].collection.attrs[1].name = <<109>>
              /\ rsp.attrs[1].values[1].collection.attrs[1].values[1] =
                   [integer |-> 7]

\* an end-collection entry that declares a value was refused after the
\* member before it had been read
MarkersCheckedWitness ==
  /\ ReadOver /\ Have(EndCollectionAt + 4)
  /\ BeginLength = 0 /\ MemberNameLength = 0 /\ EndLength = 2
  /\ log.ret = IPP_ERROR
  /\ src.pos = EndCollectionAt + 5
  /\ rsp.attrs[1].values[1].collection.attrs[1].num_values = 1


\* ---------------------------------------------------------------------
\* Out-of-band values: the attribute "a" arrives with a tag that stands
\* for no value, and with or without a payload
\* ---------------------------------------------------------------------

EmptyTags ==
  {IPP_TAG_NOVALUE, IPP_TAG_NOTSETTABLE, IPP_TAG_DELETEATTR, IPP_TAG_ADMINDEFINE}

\* the payloads a peer sends with such a tag: none, text, text with a zero
\* byte in it
EmptyPayloads == {<<>>, <<120>>, <<120, 121>>, <<120, 121, 122>>, <<120, 0, 122>>}

FeedEmpty ==
  /\ Feeding /\ log.calls = 1
  /\ \E tag \in EmptyTags, bytes \in EmptyPayloads :
       Fed(WireEntry(tag, <<97>>, Len(bytes), bytes))

NextEmpty ==
  \/ Open
  \/ FeedEmpty
  \/ FeedAfter
  \/ Read

SpecEmpty == Init /\ [][NextEmpty]_vars

\* the payload bytes of the attribute "a"
PayloadBytes == SubSeq(src.data, 15, PayloadEnd)

\* C27: a new attribute whose tag is no-value, not-settable,
\* delete-attribute or admin-define and whose declared value length is 0 is
\* read as one value without a payload, and it keeps its tag; with a
\* declared length n > 0 its value tag becomes text and the n payload bytes
\* are its value's string (the C string of the n bytes: all of them when no
\* zero byte is among them). The attributes after it are read as sent.
EmptyValues ==
  ReadOver /\ Have(13) =>
    /\ Len(rsp.attrs) = 1 + IntegersFrom(PayloadEnd)
    /\ rsp.attrs[1].name = <<97>>
    /\ rsp.attrs[1].num_values = 1
    /\ IF DeclaredLength = 0
       THEN /\ rsp.attrs[1].value_tag = src.data[9]
            /\ rsp.attrs[1].values[1] = ZeroValue
       ELSE /\ rsp.attrs[1].value_tag = IPP_TAG_TEXT
            /\ rsp.attrs[1].values[1].text = CStr(PayloadBytes)
            /\ (\A k \in 1..DeclaredLength : PayloadBytes[k] # 0) =>
                 rsp.attrs[1].values[1].text = PayloadBytes
    /\ src.pos = EndFrom(PayloadEnd)

\* a not-settable attribute that came with three bytes was read as text
EmptyValuesWitness ==
  /\ ReadOver /\ Have(13)
  /\ log.ret = IPP_DATA
  /\ src.data[9] = IPP_TAG_NOTSETTABLE
  /\ DeclaredLength = 3
  /\ rsp.attrs[1].value_tag = IPP_TAG_TEXT
  /\ rsp.attrs[1].values[1].text = <<120, 121, 122>>


\* ---------------------------------------------------------------------
\* Strings with a language: the attribute "a" arrives as text or name with
\* language, its value the two lengths and the bytes a peer put into it
\* ---------------------------------------------------------------------

\* what the scratch buffer holds behind the bytes read last: bytes of
\* earlier reads, or what malloc() left there
StaleBytes == {0, 170}

\* the values of a peer: a charset length, some bytes, a text length, some
\* bytes, whether or not the lengths are those of the bytes
LangValues ==
  {Put16(cl) \o cs \o Put16(tl) \o tx :
     cl \in {0, 1, 2, 5}, cs \in {<<>>, <<1>>, <<1, 2>>},
     tl \in {0, 1, 3}, tx \in {<<>>, <<3>>}}

FeedLang ==
  /\ Feeding /\ log.calls = 1
  /\ \E tag \in {IPP_TAG_TEXTLANG, IPP_TAG_NAMELANG}, bytes \in LangValues :
       Fed(WireEntry(tag, <<97>>, Len(bytes), bytes))

\* one ippReadIO call with a scratch buffer that holds stale bytes
ReadStale ==
  /\ src # EmptySource
  /\ log.ret # IPP_ERROR
  /\ rsp.state # IPP_DATA
  /\ \E blocking \in BOOLEAN, junk \in StaleBytes :
       HasRead(blocking, ippReadIO(src, pool, blocking, FALSE, rsp,
                                   [junk |-> junk, moves |-> FALSE]))

NextLang ==
  \/ Open
  \/ FeedLang
  \/ FeedAfter
  \/ ReadStale

SpecLang == Init /\ [][NextLang]_vars

\* the lengths inside the value of the attribute "a"
CharsetLength == Get16(PayloadBytes, 1)
TextLengthAt == 2 + CharsetLength
TextLength ==
  IF TextLengthAt + 2 <= DeclaredLength
  THEN Get16(PayloadBytes, TextLengthAt + 1) ELSE 0

\* the charset and the text lie within the n bytes of the value
InEnvelope ==
  /\ TextLengthAt + 2 <= DeclaredLength
  /\ TextLengthAt + 2 + TextLength <= DeclaredLength

\* C28: a text or name with language of declared length n is read with
\* its charset and its text taken from the n bytes of the value only, and a
\* value whose charset length and text length do not fit within n
\* (2 + charset length + 2 + text length > n) yields IPP_ERROR.
LangInEnvelope ==
  ReadOver /\ Have(13) /\ DeclaredLength >= 4 =>
    IF InEnvelope
    THEN /\ rsp.attrs[1].num_values = 1
         /\ rsp.attrs[1].values[1].charset =
              CStr(SubSeq(PayloadBytes, 3, TextLengthAt))
         /\ rsp.attrs[1].values[1].text =
              CStr(SubSeq(PayloadBytes, TextLengthAt + 3,
                          TextLengthAt + 2 + TextLength))
    ELSE log.ret = IPP_ERROR


(***************************************************************************)
(* The decoder on messages in memory: what ippReadIO does to the list of  *)
(* a message, its cursors and the storage of its attributes.  cap counts  *)
(* the value slots an attribute was allocated with; realloc() may leave   *)
(* the attribute where it is or move it to a new address and free the old *)
(* one.  An attribute is named by the number of the address it was made   *)
(* at, a value is the number of its slot.                                 *)
(***************************************************************************)
MaxCells == 3
MaxValues == 9

\* the message ippReadIO reads into
Reader == 1

Reading == ~heap.bad /\ heap.msgs # <<>> /\ heap.msgs[Reader].state = IPP_ATTRIBUTE

\* ipp->state = IPP_ATTRIBUTE; ipp->current = NULL; ipp->prev = ipp->last;
HeapHeader(h, m) ==
  [h EXCEPT !.msgs[m].state = IPP_ATTRIBUTE,
            !.msgs[m].current = NULL,
            !.msgs[m].prev = h.msgs[m].last]

\* a group tag: ipp->prev = ippAddSeparator(ipp) when it is the current
\* group, else if (ipp->current) ipp->prev = ipp->current; then
\* ipp->current = NULL
HeapGroup(h, m, same) ==
  IF same
  THEN LET h1 == HeapAddAttr(h, m, NULLSTR, IPP_TAG_ZERO, <<>>)
       IN  [h1 EXCEPT !.msgs[m].prev = h1.msgs[m].last,
                      !.msgs[m].current = NULL]
  ELSE [h EXCEPT !.msgs[m].prev = IF h.msgs[m].current # NULL
                                  THEN h.msgs[m].current ELSE @,
                 !.msgs[m].current = NULL]

\* an entry with a name: if (ipp->current) ipp->prev = ipp->current;
\* attr = ipp->current = _ippAddAttr(ipp, 1), and its first value
HeapNamed(h, m) ==
  LET h1 == [h EXCEPT !.msgs[m].prev = IF h.msgs[m].current # NULL
                                       THEN h.msgs[m].current ELSE @]
      h2 == HeapAddAttr(h1, m, <<Len(h.attrs) + 1>>, IPP_TAG_INTEGER, <<1>>)
  IN  [h2 EXCEPT !.msgs[m].current = h2.msgs[m].last]

\* a member name: the attribute is made as in HeapNamed, with one slot and
\* attr->num_values = 0, the member's name comes with the entry's value
HeapMember(h, m) ==
  LET h1 == [h EXCEPT !.msgs[m].prev = IF h.msgs[m].current # NULL
                                       THEN h.msgs[m].current ELSE @]
      h2 == HeapAddAttr(h1, m, <<Len(h.attrs) + 1>>, IPP_TAG_ZERO, <<>>)
  IN  [h2 EXCEPT !.msgs[m].current = h2.msgs[m].last,
                 !.attrs[h2.msgs[m].last].cap = 1]

\* a realloc() that moves the attribute and leaves the list as it was
HeapReallocUnlinked(h, m, attr, moves) ==
  IF ~moves
  THEN [h EXCEPT !.attrs[attr].cap = Len(h.attrs[attr].values) + IPP_MAX_VALUES]
  ELSE [h EXCEPT !.attrs = Append([@ EXCEPT ![attr].freed = TRUE],
                                  [h.attrs[attr] EXCEPT
                                     !.cap = Len(h.attrs[attr].values) +
                                             IPP_MAX_VALUES]),
                 !.msgs[m].current = Len(h.attrs) + 1]

\* temp = realloc(attr, ...) for num_values + IPP_MAX_VALUES values;
\* if (temp != attr) { if (ipp->prev) ipp->prev->next = temp; else
\* ipp->attrs = temp; attr = ipp->current = ipp->last = temp; }
HeapRealloc(h, m, attr, moves) ==
  IF ~moves
  THEN [h EXCEPT !.attrs[attr].cap = Len(h.attrs[attr].values) + IPP_MAX_VALUES]
  ELSE LET temp == Len(h.attrs) + 1
           prev == h.msgs[m].prev
           h1   == [h EXCEPT !.attrs = Append([@ EXCEPT ![attr].freed = TRUE],
                                              [h.attrs[attr] EXCEPT
                                                 !.cap = Len(h.attrs[attr].values) +
                                                         IPP_MAX_VALUES])]
           h2   == IF prev # NULL
                   THEN [h1 EXCEPT !.attrs[prev].next = temp,
                                   !.bad = @ \/ h1.attrs[prev].freed]
                   ELSE [h1 EXCEPT !.msgs[m].attrs = temp]
       IN  [h2 EXCEPT !.msgs[m].current = temp, !.msgs[m].last = temp]

\* an entry without a name: the value array of ipp->current grows when
\* num_values is 1 or a multiple of IPP_MAX_VALUES, and the value is stored
\* at index num_values
HeapMore(h, m, moves) ==
  LET attr == h.msgs[m].current
      n    == Len(h.attrs[attr].values)
      h1   == IF n = 1 \/ (n > 0 /\ n % IPP_MAX_VALUES = 0)
              THEN HeapRealloc(h, m, attr, moves) ELSE h
      a1   == IF h1.attrs[attr].freed THEN h1.msgs[m].current ELSE attr
  IN  [h1 EXCEPT !.attrs[a1].values = Append(@, n + 1),
                 !.bad = @ \/ h1.attrs[a1].freed \/ n >= h1.attrs[a1].cap]

\* ippNew() for the message to read into
NewReader ==
  /\ heap.msgs = <<>>
  /\ HeapStep(HeapNew(heap))

\* the header of the message was read
DecodeHeader ==
  /\ ~heap.bad /\ heap.msgs # <<>>
  /\ heap.msgs[Reader].state = IPP_IDLE /\ ~heap.msgs[Reader].freed
  /\ HeapStep(HeapHeader(heap, Reader))

DecodeGroup ==
  /\ Reading
  /\ Len(heap.attrs) < MaxCells
  /\ \E same \in BOOLEAN : HeapStep(HeapGroup(heap, Reader, same))

DecodeNamed ==
  /\ Reading
  /\ Len(heap.attrs) < MaxCells
  /\ HeapStep(HeapNamed(heap, Reader))

DecodeMember ==
  /\ Reading
  /\ Len(heap.attrs) < MaxCells
  /\ HeapStep(HeapMember(heap, Reader))

DecodeMore ==
  /\ Reading
  /\ heap.msgs[Reader].current # NULL
  /\ Len(heap.attrs[heap.msgs[Reader].current].values) < MaxValues
  /\ \E moves \in BOOLEAN :
       /\ moves => Len(heap.attrs) < MaxCells
       /\ HeapStep(HeapMore(heap, Reader, moves))

\* the end tag
DecodeEnd ==
  /\ Reading
  /\ HeapStep([heap EXCEPT !.msgs[Reader].state = IPP_DATA])

NextGrow ==
  \/ NewReader
  \/ DecodeHeader
  \/ DecodeGroup
  \/ DecodeNamed
  \/ DecodeMember
  \/ DecodeMore
  \/ DecodeEnd

SpecGrow == Init /\ [][NextGrow]_vars

RECURSIVE ListFrom(_, _, _)
\* the addresses of the attributes from a on along the next links, none
\* followed more often than there are addresses
ListFrom(h, a, fuel) ==
  IF a = NULL \/ fuel = 0 THEN <<>>
  ELSE <<a>> \o ListFrom(h, h.attrs[a].next, fuel - 1)

\* the list of the message at m
List(h, m) == ListFrom(h, h.msgs[m].attrs, Len(h.attrs) + 1)

\* name and values of the attributes of the list
Listed(h, m) ==
  [k \in 1..Len(List(h, m)) |->
     [name |-> h.attrs[List(h, m)[k]].name,
      values |-> h.attrs[List(h, m)[k]].values]]

\* a pointer of the message at m or of an attribute not freed is a
RefersTo(h, m, a) ==
  \/ a \in {h.msgs[m].attrs, h.msgs[m].last, h.msgs[m].current, h.msgs[m].prev}
  \/ \E b \in 1..Len(h.attrs) : ~h.attrs[b].freed /\ h.attrs[b].next = a

\* ippReadIO has stored a further value in the current attribute
ValueStored ==
  /\ Reading
  /\ heap.msgs[Reader].current # NULL
  /\ heap'.msgs[Reader].current # NULL
  /\ heap'.attrs # heap.attrs
  /\ \/ heap'.msgs[Reader].current = heap.msgs[Reader].current
     \/ heap'.attrs[heap.msgs[Reader].current].freed

\* C29: whenever ippReadIO stores a value at index num_values of the
\* current attribute, the attribute has more slots than that index (the
\* array grows by IPP_MAX_VALUES slots when num_values is 1 or a positive
\* multiple of IPP_MAX_VALUES), the values stored before are kept, and when
\* the attribute has moved, the link before it (or ipp->attrs),
\* ipp->current and ipp->last refer to the new storage: the list has the
\* same attributes in the same order, and nothing refers to the old storage.
GrowthKeepsList ==
  [][ValueStored =>
       LET old == heap.msgs[Reader].current
           new == heap'.msgs[Reader].current
           n   == Len(heap.attrs[old].values)
       IN  /\ ~heap'.bad
           /\ heap'.attrs[new].cap > n
           /\ heap'.attrs[new].cap =
                IF n = 1 \/ (n > 0 /\ n % IPP_MAX_VALUES = 0)
                THEN n + IPP_MAX_VALUES ELSE heap.attrs[old].cap
           /\ heap'.attrs[new].values = Append(heap.attrs[old].values, n + 1)
           /\ Len(List(heap', Reader)) = Len(List(heap, Reader))
           /\ \A k \in 1..Len(List(heap, Reader)) :
                IF List(heap, Reader)[k] = old
                THEN List(heap', Reader)[k] = new
                ELSE /\ List(heap', Reader)[k] = List(heap, Reader)[k]
                     /\ Listed(heap', Reader)[k] = Listed(heap, Reader)[k]
           /\ \E k \in 1..Len(List(heap, Reader)) : List(heap, Reader)[k] = old
           /\ heap'.msgs[Reader].last = new
           /\ List(heap', Reader)[Len(List(heap', Reader))] = new
           /\ new # old =>
                /\ heap'.attrs[old].freed
                /\ ~heap'.attrs[new].freed
                /\ ~RefersTo(heap', Reader, old)]_vars

\* the second of two attributes has got its ninth value in storage that
\* was moved
GrowthKeepsListWitness ==
  /\ heap.msgs # <<>> /\ ~heap.bad
  /\ Len(List(heap, Reader)) = 2
  /\ heap.msgs[Reader].current = List(heap, Reader)[2]
  /\ heap.msgs[Reader].current # NULL
  /\ Len(heap.attrs[heap.msgs[Reader].current].values) = 9
  /\ heap.attrs[heap.msgs[Reader].current].cap = 16
  /\ \E a \in 1..Len(heap.attrs) : heap.attrs[a].freed


\* ---------------------------------------------------------------------
\* The list of a message under the application's additions and deletions
\* before and after a decode
\* ---------------------------------------------------------------------

\* the message is not in the middle of a decode
AtRest == ~heap.bad /\ heap.msgs # <<>> /\ heap.msgs[Reader].state # IPP_ATTRIBUTE

\* ippAddInteger by the application
ListAdd ==
  /\ AtRest
  /\ Len(heap.attrs) < MaxCells
  /\ HeapStep(HeapAddAttr(heap, Reader, <<Len(heap.attrs) + 1>>,
                          IPP_TAG_INTEGER, <<7>>))

\* ippDeleteAttribute by the application
ListDelete ==
  /\ AtRest
  /\ \E attr \in Attrs(Reader) : HeapStep(ippDeleteAttribute(heap, Reader, attr))

\* a further value of the current attribute, of which there are few
MaxFurther == 2

DecodeFurther ==
  /\ Reading
  /\ heap.msgs[Reader].current # NULL
  /\ Len(heap.attrs[heap.msgs[Reader].current].values) < MaxFurther
  /\ \E moves \in BOOLEAN :
       /\ moves => Len(heap.attrs) < MaxCells
       /\ HeapStep(HeapMore(heap, Reader, moves))

NextList ==
  \/ NewReader
  \/ ListAdd
  \/ ListDelete
  \/ DecodeHeader
  \/ DecodeGroup
  \/ DecodeNamed
  \/ DecodeMember
  \/ DecodeFurther
  \/ DecodeEnd

SpecList == Init /\ [][NextList]_vars

\* the list without its element k
Without(list, k) == SubSeq(list, 1, k - 1) \o SubSeq(list, k + 1, Len(list))

\* ipp->last is the final node reachable from ipp->attrs, NULL when there
\* is none; the list holds every attribute of the message that was not
\* freed, each once, and no other
ListSound ==
  heap.msgs # <<>> =>
    LET list == List(heap, Reader)
    IN  /\ ~heap.bad
        /\ heap.msgs[Reader].last =
             IF list = <<>> THEN NULL ELSE list[Len(list)]
        /\ (heap.msgs[Reader].attrs = NULL) <=> (heap.msgs[Reader].last = NULL)
        /\ list # <<>> => heap.attrs[list[Len(list)]].next = NULL
        /\ \A k \in 1..Len(list) : ~heap.attrs[list[k]].freed
        /\ \A j, k \in 1..Len(list) : list[j] = list[k] => j = k
        /\ {list[k] : k \in 1..Len(list)} = Attrs(Reader)

\* what a step does to the list: nothing, or a new attribute at its end, or
\* one attribute taken out and freed, or its last attribute moved by
\* realloc(); the attributes that stay keep their order
ListStep ==
  heap.msgs # <<>> =>
    LET old == List(heap, Reader)
        new == List(heap', Reader)
    IN  \/ new = old
        \/ new = Append(old, Len(heap.attrs) + 1)
        \/ \E k \in 1..Len(old) :
             /\ new = Without(old, k)
             /\ heap'.attrs[old[k]].freed
             /\ Len(heap'.attrs) = Len(heap.attrs)
        \/ /\ old # <<>> /\ Len(new) = Len(old)
           /\ SubSeq(new, 1, Len(old) - 1) = SubSeq(old, 1, Len(old) - 1)
           /\ new[Len(new)] = Len(heap.attrs) + 1
           /\ heap'.attrs[old[Len(old)]].freed
           /\ heap'.attrs[new[Len(new)]].name = heap.attrs[old[Len(old)]].name

\* the attributes made by the decoder stand in the list in the order of
\* their entries: the names, numbered as they were made, ascend
WireOrder ==
  heap.msgs # <<>> =>
    LET list == List(heap, Reader)
    IN  \A j, k \in 1..Len(list) :
          /\ j < k
          /\ heap.attrs[list[j]].name # NULLSTR
          /\ heap.attrs[list[k]].name # NULLSTR
          => heap.attrs[list[j]].name[1] < heap.attrs[list[k]].name[1]

BeginPart == WireEntry(IPP_TAG_BEGIN_COLLECTION, <<99>>, 0, <<>>)
MemberNamePart == WireEntry(IPP_TAG_MEMBERNAME, <<>>, 1, <<109>>)
MemberValuePart == WireEntry(IPP_TAG_INTEGER, <<>>, 4, <<0, 0, 0, 7>>)
EndCollectionPart == WireEntry(IPP_TAG_END_COLLECTION, <<>>, 0, <<>>)
NamedIntegerPart == WireEntry(IPP_TAG_INTEGER, <<105>>, 4, <<0, 0, 0, 7>>)

CollectionParts ==
  {BeginPart, MemberNamePart, MemberValuePart, EndCollectionPart, NamedIntegerPart,
   <<IPP_TAG_END>>}

FeedPart ==
  /\ Feeding
  /\ \E bytes \in CollectionParts : Fed(bytes)

NextMembers ==
  \/ Open
  \/ FeedPart
  \/ Read

SpecMembers == Init /\ [][NextMembers]_vars

RECURSIVE WellFormed(_)
\* every attribute of the message and of the collections in it is a
\* separator, without name and values, or has a name and a value
WellFormed(m) ==
  \A a \in 1..Len(m.attrs) :
    /\ \/ m.attrs[a].name = NULLSTR /\ m.attrs[a].num_values = 0
       \/ m.attrs[a].name # NULLSTR /\ m.attrs[a].num_values >= 1
    /\ m.attrs[a].value_tag = IPP_TAG_BEGIN_COLLECTION =>
         \A v \in 1..m.attrs[a].num_values :
           WellFormed(m.attrs[a].values[v].collection)

\* C31: in every message, top-level or nested, on which ippReadIO has
\* returned IPP_DATA each attribute is a separator (no name, no values) or
\* has a name and at least one value; a member-name entry leaves no named
\* attribute with zero values and value tag zero behind.
AttributesHaveValues ==
  log.rcalls >= 1 /\ log.ret = IPP_DATA => WellFormed(rsp)


\* ---------------------------------------------------------------------
\* Non-blocking decode of a collection with several members.

\* a member with its name and its value
WholeMember == MemberNamePart \o MemberValuePart

\* what the peer sends at once: a begin-collection entry, a whole member,
\* an end-collection entry, a named integer or the end tag
WholeParts ==
  {BeginPart, WholeMember, EndCollectionPart, NamedIntegerPart,
   <<IPP_TAG_END>>}

FeedWhole ==
  /\ Feeding
  /\ \E bytes \in WholeParts : Fed(bytes)

NextSuspend ==
  \/ Open
  \/ FeedWhole
  \/ Read

SpecSuspend == Init /\ [][NextSuspend]_vars

\* the stream holds at offset b a begin-collection entry followed by two
\* members
TwoMembersAt(b) ==
  /\ b + Len(BeginPart) + 2 * Len(WholeMember) <= Len(src.data)
  /\ SubSeq(src.data, b + 1, b + Len(BeginPart) + 2 * Len(WholeMember))
       = BeginPart \o WholeMember \o WholeMember

\* a non-blocking call started before the collection that begins at
\* offset b and returned past its first member
ReadOverMembers(b) ==
  /\ log'.rnb = log.rnb + 1
  /\ src.pos <= b
  /\ src'.pos > b + Len(BeginPart) + Len(WholeMember)

\* C32: in non-blocking mode ippReadIO returns between two members of a
\* nested collection, so no non-blocking call that starts before a
\* collection of two members returns past the first of them, and the
\* decode a later call completes gives the message of a blocking decode.
CollectionSuspends ==
  /\ []SameAsBlockingRead
  /\ [][\A b \in 0..Len(src.data) : TwoMembersAt(b) => ~ReadOverMembers(b)]_vars


\* ---------------------------------------------------------------------
\* What ends a decode.

\* the entries with the tag among the bytes read so far; the parts of
\* CollectionParts hold the bytes 0x34, 0x37 and 0x03 as tags only
Consumed(tag) == Cardinality({i \in 1..src.pos : src.data[i] = tag})

RECURSIVE CollectionsIn(_)
\* the collection values of the message m and of its collections
CollectionsIn(m) ==
  LET RECURSIVE OfValues(_, _)
      OfValues(a, v) ==
        IF v > m.attrs[a].num_values THEN 0
        ELSE 1 + CollectionsIn(m.attrs[a].values[v].collection)
               + OfValues(a, v + 1)
      RECURSIVE OfAttrs(_)
      OfAttrs(a) ==
        IF a > Len(m.attrs) THEN 0
        ELSE (IF m.attrs[a].value_tag = IPP_TAG_BEGIN_COLLECTION
              THEN OfValues(a, 1) ELSE 0) + OfAttrs(a + 1)
  IN OfAttrs(1)

\* C33: the top-level decode reaches IPP_DATA only by reading the end tag
\* 0x03 outside every collection, and the decode of a collection completes
\* only by reading its own end-collection entry: the last byte read by a
\* completed decode is the end tag, every begin-collection entry read
\* before it was matched by an end-collection entry, and the message holds
\* no more collection values than end-collection entries were read.
EndsByItsTerminator ==
  /\ ReadComplete =>
       /\ src.data[src.pos] = IPP_TAG_END
       /\ Consumed(IPP_TAG_BEGIN_COLLECTION) = Consumed(IPP_TAG_END_COLLECTION)
  /\ log.rcalls >= 1 =>
       CollectionsIn(rsp) <= Consumed(IPP_TAG_END_COLLECTION)


\* ---------------------------------------------------------------------
\* Names that fill the scratch buffer.

\* a name of n letters
NameOf(n) == [k \in 1..n |-> 110]

\* the longest name ippWriteIO accepts for a top-level attribute, and one
\* more
TopNameLengths == {IPP_BUF_SIZE - 4, IPP_BUF_SIZE - 3}

\* the same for a member of a collection
MemberNameLengths == {IPP_BUF_SIZE - 7, IPP_BUF_SIZE - 6}

\* an integer or a text attribute with the name, added to the message m
Named(m, group, name, text) ==
  IF text THEN ippAddString(m, group, IPP_TAG_TEXT, name, NULLSTR, <<97>>)
  ELSE ippAddIntegers(m, group, IPP_TAG_INTEGER, name, <<7>>)

\* ippAddInteger or ippAddString with a long name
AddLongName ==
  /\ Building
  /\ \E n \in TopNameLengths, group \in {IPP_TAG_OPERATION, IPP_TAG_JOB},
        text \in BOOLEAN :
       Built(Named(ipp, group, NameOf(n), text))

\* ippAddCollection of a collection with one member that has a long name
AddLongMember ==
  /\ Building
  /\ \E n \in MemberNameLengths, text \in BOOLEAN :
       Built(ippAddCollection(ipp, IPP_TAG_JOB, NameC,
                              Named(ippNew, IPP_TAG_ZERO, NameOf(n), text)))

NextNames ==
  \/ AddLongName
  \/ AddLongMember
  \/ Write

SpecNames == Init /\ [][NextNames]_vars

\* C34: the encoder never holds more than IPP_BUF_SIZE bytes in its
\* scratch buffer, and every call of the sink passes a length between 1 and
\* IPP_BUF_SIZE, for every name length the encoder accepts: the member name
\* of IPP_BUF_SIZE - 7 letters and the top-level name of IPP_BUF_SIZE - 4
\* letters after a group tag among them.
BufferBound ==
  \A n \in 1..Len(dst.chunks) :
    Len(dst.chunks[n]) >= 1 /\ Len(dst.chunks[n]) <= IPP_BUF_SIZE


\* ---------------------------------------------------------------------
\* The longest names and values on both sides.

\* the entries with long names or long values a peer sends
MaxLong == 2

\* a keyword with a name about as long as the scratch buffer, a text and
\* an octet string about as long as it
LongEntries ==
  {WireEntry(IPP_TAG_KEYWORD, NameOf(n), 1, <<97>>) :
     n \in {IPP_BUF_SIZE - 4, IPP_BUF_SIZE - 3, IPP_BUF_SIZE - 1}}
  \cup {WireEntry(IPP_TAG_TEXT, <<116>>, n, NameOf(n)) :
     n \in {IPP_BUF_SIZE - 2, IPP_BUF_SIZE - 1}}
  \cup {WireEntry(IPP_TAG_STRING, <<111>>, n, NameOf(n)) :
     n \in {IPP_BUF_SIZE - 2, IPP_MAX_LENGTH}}

\* a job group tag and one of the entries arrive
FeedLong ==
  /\ Feeding
  /\ log.calls <= MaxLong
  /\ \E bytes \in LongEntries : Fed(<<IPP_TAG_JOB>> \o bytes)

NextLimits ==
  \/ Open
  \/ FeedLong
  \/ FeedEnd
  \/ Read
  \/ Reencode

SpecLimits == Init /\ [][NextLimits]_vars

\* C35: the length limits of the decoder and of the encoder agree: a
\* message that ippReadIO has decoded to its end is written by ippWriteIO
\* without an error.
SymmetricLimits ==
  log.wcalls >= 1 /\ rsp.state = IPP_DATA => log.ret = IPP_DATA


\* ---------------------------------------------------------------------
\* A decode that fails, and the ippDelete that follows.

\* the members read into a collection before its decode ends
MaxMembers == 2

\* the reader's message is being decoded and no call has failed
Decoding ==
  /\ Reading
  /\ ~heap.msgs[Reader].freed
  /\ log.ret # IPP_ERROR

\* ippReadIO returned IPP_ERROR
HeapFailed(h) ==
  /\ heap' = h
  /\ log' = [log EXCEPT !.ret = IPP_ERROR]
  /\ UNCHANGED <<ipp, dst, src, rsp, pool, cg>>

\* ippNew() called by the decoder: the pointer goes to a value slot, the
\* application holds none
HeapNewValue(h) == [HeapNew(h) EXCEPT !.held[Len(h.msgs) + 1] = 0]

RECURSIVE AddMembers(_, _, _)
\* k members with one integer value each are read into the collection c
AddMembers(h, c, k) ==
  IF k = 0 THEN h
  ELSE AddMembers(HeapAddAttr(h, c, <<Len(h.attrs) + 1>>, IPP_TAG_INTEGER,
                              <<1>>), c, k - 1)

\* a named entry whose value is not yet counted: attr = ipp->current =
\* _ippAddAttr(ipp, 1) with num_values = 0
HeapEntry(h, m, value_tag) ==
  LET h1 == [h EXCEPT !.msgs[m].prev = IF h.msgs[m].current # NULL
                                       THEN h.msgs[m].current ELSE @]
      h2 == HeapAddAttr(h1, m, <<Len(h.attrs) + 1>>, value_tag, <<>>)
  IN  [h2 EXCEPT !.msgs[m].current = h2.msgs[m].last,
                 !.attrs[h2.msgs[m].last].cap = 1]

\* a begin-collection entry: value->collection = ippNew() is stored in the
\* slot at index num_values, the members are read into it, and
\* attr->num_values ++ counts the slot when the collection was read to its
\* end; a slot that is not counted is a slot no one reads
HeapCollection(h, m, members, done) ==
  LET h1   == HeapEntry(h, m, IPP_TAG_BEGIN_COLLECTION)
      attr == h1.msgs[m].current
      h2   == HeapNewValue(h1)
      c    == Len(h2.msgs)
      h3   == AddMembers(h2, c, members)
  IN  IF done THEN [h3 EXCEPT !.attrs[attr].values = <<c>>,
                              !.msgs[c].state = IPP_DATA]
      ELSE h3

\* an octet string: value->unknown.data = malloc(n), counted by
\* attr->num_values ++ when the bytes were read
HeapOpaque(h, m, done) ==
  LET h1   == HeapEntry(h, m, IPP_TAG_STRING)
      attr == h1.msgs[m].current
      h2   == [h1 EXCEPT !.data = Append(@, [freed |-> FALSE])]
  IN  IF done THEN [h2 EXCEPT !.attrs[attr].values = <<Len(h2.data)>>]
      ELSE h2

\* an integer attribute is read
DecodeInteger ==
  /\ Decoding
  /\ Len(heap.attrs) < MaxCells
  /\ HeapStep(HeapNamed(heap, Reader))

\* a collection is read, to its end or to an error
DecodeCollection ==
  /\ Decoding
  /\ Len(heap.msgs) < MaxMessages
  /\ \E members \in 0..MaxMembers, done \in BOOLEAN :
       /\ Len(heap.attrs) + 1 + members <= MaxCells
       /\ IF done THEN HeapStep(HeapCollection(heap, Reader, members, TRUE))
          ELSE HeapFailed(HeapCollection(heap, Reader, members, FALSE))

\* an octet string is read, or the source ends within it
DecodeOpaque ==
  /\ Decoding
  /\ Len(heap.attrs) < MaxCells
  /\ \E done \in BOOLEAN :
       IF done THEN HeapStep(HeapOpaque(heap, Reader, TRUE))
       ELSE HeapFailed(HeapOpaque(heap, Reader, FALSE))

\* an entry is refused before anything was allocated for it
DecodeRefused ==
  /\ Decoding
  /\ HeapFailed(heap)

NextCleanup ==
  \/ NewReader
  \/ DecodeHeader
  \/ DecodeInteger
  \/ DecodeCollection
  \/ DecodeOpaque
  \/ DecodeRefused
  \/ Delete

SpecCleanup == Init /\ [][NextCleanup]_vars

\* C36: when ippReadIO has returned IPP_ERROR and the caller has called
\* ippDelete on the top-level message, every collection the decode made
\* with ippNew and every payload it allocated is freed, those of the value
\* that was being decoded when the error occurred among them.
CleanupAfterError ==
  heap.msgs # <<>> /\ log.ret = IPP_ERROR /\ heap.msgs[Reader].freed =>
    /\ \A m \in 1..Len(heap.msgs) : heap.msgs[m].freed
    /\ \A a \in 1..Len(heap.attrs) : heap.attrs[a].freed
    /\ \A d \in 1..Len(heap.data) : heap.data[d].freed


\* ---------------------------------------------------------------------
\* Calls of the encoder on a message in state IPP_DATA.

\* the most ippWriteIO and ippWriteFile calls on one message
MaxWrites == 3

\* ippWriteIO is called again on the message that was written to its end
WriteAgain ==
  /\ src = EmptySource
  /\ ipp.state = IPP_DATA /\ log.ret = IPP_DATA
  /\ log.wcalls < MaxWrites
  /\ \E blocking \in BOOLEAN :
       Wrote(blocking, ippWriteIO(dst, pool, blocking, FALSE, ipp))

\* ippWriteFile is called on the message that was written to its end
WriteFileAgain ==
  /\ src = EmptySource
  /\ ipp.state = IPP_DATA /\ log.ret = IPP_DATA
  /\ log.wcalls < MaxWrites
  /\ Wrote(TRUE, ippWriteFile(dst, pool, ipp))

\* ippWriteIO is called on the message that was just decoded
WriteDecoded ==
  /\ src # EmptySource
  /\ rsp.state = IPP_DATA /\ log.ret = IPP_DATA
  /\ log.wcalls < MaxWrites
  /\ \E blocking \in BOOLEAN :
       Wrote(blocking, ippWriteIO(dst, pool, blocking, FALSE, rsp))

NextTerminal ==
  \/ Prepare
  \/ Write
  \/ WriteAgain
  \/ WriteFileAgain
  \/ Transfer
  \/ Read
  \/ WriteDecoded

SpecTerminal == Init /\ [][NextTerminal]_vars

\* what the step passed to the sink
NewBytes == SubSeq(dst'.taken, Len(dst.taken) + 1, Len(dst'.taken))

\* the step left the sink as it was and returned IPP_DATA
NothingWritten ==
  /\ dst' = dst
  /\ log'.ret = IPP_DATA
  /\ ipp'.state = IPP_DATA

\* the step wrote the message from its header on: the header, every
\* attribute with the members of its collections, and the end tag
WrittenFromHeader ==
  /\ dst'.chunks # dst.chunks
  /\ log'.ret = IPP_DATA
  /\ Len(NewBytes) >= 9
  /\ SubSeq(NewBytes, 1, 8) = HeaderBytes(ipp)
  /\ WireEntries(NewBytes) = MessageEntries(ipp, 1)
  /\ NewBytes[Len(NewBytes)] = IPP_TAG_END

\* C37: IPP_DATA is the terminal state of the encoder: an ippWriteIO call on
\* a message that is in IPP_DATA, because it was written to its end or
\* because it was just decoded, passes nothing to the sink and returns
\* IPP_DATA; ippWriteFile resets the state to IPP_IDLE first and writes the
\* whole message from the header on, and the state of a collection is reset
\* to IPP_IDLE each time the value that holds it is written, so that its
\* members are written again.
TerminalState ==
  [][/\ WriteAgain => NothingWritten
     /\ WriteDecoded => NothingWritten
     /\ WriteFileAgain => WrittenFromHeader]_vars

\* the message with two collections went to the sink twice, by a blocking
\* ippWriteIO and by ippWriteFile, with an ippWriteIO between or after them
\* that wrote nothing
TerminalStateWitness ==
  /\ ipp.state = IPP_DATA /\ src = EmptySource
  /\ log.wcalls = 3 /\ log.wnb = 0
  /\ Len(ipp.attrs) >= 1
  /\ ipp.attrs[1].value_tag = IPP_TAG_BEGIN_COLLECTION
  /\ Len(dst.taken) >= 18
  /\ dst.taken = SubSeq(dst.taken, 1, Len(dst.taken) \div 2) \o
                 SubSeq(dst.taken, 1, Len(dst.taken) \div 2)


\* ---------------------------------------------------------------------
\* What a blocking call returns.

\* streams with collections and group tags are decoded, and the message
\* decoded is written by ippWriteFile
NextFinal ==
  \/ Open
  \/ FeedPart
  \/ FeedGroup
  \/ Read
  \/ Reencode

SpecFinal == Init /\ [][NextFinal]_vars

\* the step is a blocking ippReadIO call on a message in state IPP_IDLE
BlockingRead ==
  /\ log'.rcalls = log.rcalls + 1
  /\ log'.rnb = log.rnb
  /\ rsp.state = IPP_IDLE

\* the step is a blocking ippWriteIO call
BlockingWrite ==
  /\ log'.wcalls = log.wcalls + 1
  /\ log'.wnb = log.wnb

\* C38: a blocking call ends with a final outcome: a blocking ippReadIO on a
\* message in IPP_IDLE over a finite stream returns IPP_DATA or IPP_ERROR
\* and never IPP_HEADER or IPP_ATTRIBUTE, and a blocking ippWriteIO on a
\* finite message returns IPP_DATA or IPP_ERROR.
BlockingCallsEnd ==
  [][/\ BlockingRead => log'.ret \in {IPP_DATA, IPP_ERROR}
     /\ BlockingWrite => log'.ret \in {IPP_DATA, IPP_ERROR}]_vars


\* ---------------------------------------------------------------------
\* A value without a name and without a current attribute.

\* a named integer, an integer without a name, the begin of a collection
\* or the end tag arrives
FeedOrphan ==
  /\ Feeding
  /\ \E bytes \in {NamedIntegerPart, MemberValuePart, BeginPart,
                    <<IPP_TAG_END>>} : Fed(bytes)

NextOrphans ==
  \/ Open
  \/ FeedGroup
  \/ FeedOrphan
  \/ Read

SpecOrphans == Init /\ [][NextOrphans]_vars

RECURSIVE FirstOrphan(_, _, _, _)
\* the offset of the first entry from offset p on that has an empty name, a
\* tag other than member-name and end-collection, and no attribute before
\* it at its level since the header, the begin of its collection or the
\* last group tag; -1 when there is none.  depth counts the collections
\* that are open, cur says that an attribute stands before the entry.
FirstOrphan(bytes, p, depth, cur) ==
  IF p >= Len(bytes) THEN -1
  ELSE IF bytes[p + 1] = IPP_TAG_END
  THEN IF depth = 0 THEN -1 ELSE FirstOrphan(bytes, p + 1, depth - 1, TRUE)
  ELSE IF bytes[p + 1] < IPP_TAG_UNSUPPORTED_VALUE
  THEN FirstOrphan(bytes, p + 1, depth, FALSE)
  ELSE IF p + 3 > Len(bytes) THEN -1
  ELSE
  LET tag == bytes[p + 1]
      n   == Get16(bytes, p + 2)
      q   == p + 3 + n
  IN  IF n = 0 /\ tag \notin {IPP_TAG_MEMBERNAME, IPP_TAG_END_COLLECTION} /\ ~cur
      THEN p
      ELSE IF q + 2 > Len(bytes) THEN -1
      ELSE IF tag = IPP_TAG_BEGIN_COLLECTION
      THEN FirstOrphan(bytes, q + 2 + Get16(bytes, q + 1), depth + 1, FALSE)
      ELSE IF tag = IPP_TAG_END_COLLECTION /\ depth = 0 THEN -1
      ELSE IF tag = IPP_TAG_END_COLLECTION
      THEN FirstOrphan(bytes, q + 2 + Get16(bytes, q + 1), depth - 1, TRUE)
      ELSE FirstOrphan(bytes, q + 2 + Get16(bytes, q + 1), depth, TRUE)

\* the first such entry of the stream
OrphanAt == FirstOrphan(src.data, 8, 0, FALSE)

\* the decoder does not get past the name length of the entry: the call
\* that reads it returns IPP_ERROR
OrphanRefused ==
  OrphanAt >= 0 /\ src.pos > OrphanAt =>
    src.pos = OrphanAt + 3 /\ log.ret = IPP_ERROR

\* the names and the numbers of values of the named attributes of m
NamedCounts(m) ==
  LET named == SelectSeq(m.attrs, IsNamed)
  IN  [k \in 1..Len(named) |-> <<named[k].name, named[k].num_values>>]

\* the call met the entry after nothing but the header or group tags
OrphanMet ==
  /\ OrphanAt >= 0
  /\ src.pos <= OrphanAt /\ src'.pos = OrphanAt + 3
  /\ \A i \in (src.pos + 1)..OrphanAt :
       src.data[i] < IPP_TAG_UNSUPPORTED_VALUE /\ src.data[i] # IPP_TAG_END

\* the stream holds no collection
Flat ==
  \A i \in 1..Len(src.data) :
    src.data[i] \notin {IPP_TAG_BEGIN_COLLECTION, IPP_TAG_END_COLLECTION,
                        IPP_TAG_MEMBERNAME}

IsNamedItem(item) == ~item.delim /\ item.name # <<>>

RECURSIVE RunFrom(_, _)
\* the entries with an empty name that follow each other from item i on
RunFrom(items, i) ==
  IF i > Len(items) \/ items[i].delim \/ items[i].name # <<>> THEN 0
  ELSE 1 + RunFrom(items, i + 1)

\* for each named entry of the stream, in order, the number of its values:
\* its own and those of the entries with an empty name that follow it
\* before the next group tag or named entry
Runs(items) ==
  LET at == SelectSeq([i \in 1..Len(items) |-> i],
                      LAMBDA i : IsNamedItem(items[i]))
  IN  [k \in 1..Len(at) |-> 1 + RunFrom(items, at[k] + 1)]

\* no attribute holds a value from behind a group tag
ValuesBeforeGroupTag ==
  Flat /\ log.rcalls >= 1 =>
    LET runs  == Runs(WireItems(src.data, 8))
        named == SelectSeq(rsp.attrs, IsNamed)
    IN  /\ Len(named) <= Len(runs)
        /\ \A k \in 1..Len(named) : named[k].num_values <= runs[k]

\* C39: an entry with an empty name and a tag other than member-name and
\* end-collection that arrives when there is no current attribute, as the
\* first entry of the message or of a collection or directly after a group
\* tag, makes ippReadIO return IPP_ERROR and adds nothing to the message,
\* and no value is appended to an attribute that stands before the most
\* recent group tag.
NoCurrentRefused ==
  /\ [](OrphanRefused /\ ValuesBeforeGroupTag)
  /\ [][OrphanMet => NamedCounts(rsp') = NamedCounts(rsp)]_vars

\* job, the integer "i", operation, and an integer without a name: the call
\* returned IPP_ERROR and "i" has its one value
NoCurrentRefusedWitness ==
  /\ src.data = WireHeader \o <<IPP_TAG_JOB>> \o NamedIntegerPart \o
                <<IPP_TAG_OPERATION>> \o MemberValuePart
  /\ src.pos = OrphanAt + 3
  /\ log.ret = IPP_ERROR
  /\ log.err = "Attribute without name and no current"
  /\ NamedCounts(rsp) = <<<<(<<105>>), 1>>>>

====
